---- MODULE Spec2Model ----
(***************************************************************************)
(* A model of mimikry's versioned build pipeline (cmd/mimikry, realMain):  *)
(* tag selection, the per-version prepare/build/push/clean loop with its   *)
(* (previousImage, previousBaseImage) window, cancellation and shutdown,   *)
(* and the docker image client the loop drives.                            *)
(*                                                                         *)
(* Strings the program inspects character by character (tags, versions)    *)
(* are sequences of one-character strings; image identifiers are sequences *)
(* of tokens so that the "sha256:" prefix can be trimmed.                  *)
(***************************************************************************)
EXTENDS Integers, Sequences, FiniteSets, TLC

VARIABLES run, twin, cancelled

vars == <<run, twin, cancelled>>

\* ------------------------------------------------------------------ bounds

\* Longest raw tag list a run of the pipeline is given.
MaxTags == 3
\* Longest raw tag (in characters) the selection is examined on.
MaxTagLen == 4

\* ------------------------------------------------------------ text helpers

Digits == {"0", "1", "2", "3", "4", "5", "6", "7", "8", "9"}

DigitVal(c) ==
    CASE c = "0" -> 0 [] c = "1" -> 1 [] c = "2" -> 2 [] c = "3" -> 3
      [] c = "4" -> 4 [] c = "5" -> 5 [] c = "6" -> 6 [] c = "7" -> 7
      [] c = "8" -> 8 [] c = "9" -> 9

\* Sequences over S of length 0..n.
SeqsUpTo(S, n) == UNION {[1..k -> S] : k \in 0..n}

RECURSIVE TrimLeft(_)
TrimLeft(s) == IF s # <<>> /\ Head(s) = " " THEN TrimLeft(Tail(s)) ELSE s

RECURSIVE TrimRight(_)
TrimRight(s) ==
    IF s # <<>> /\ s[Len(s)] = " " THEN TrimRight(SubSeq(s, 1, Len(s) - 1)) ELSE s

\* strings.TrimSpace
TrimSpace(s) == TrimRight(TrimLeft(s))

\* The text split at every "." (strings.Split semantics: n dots give n+1 groups).
RECURSIVE SplitDots(_)
SplitDots(s) ==
    IF \A i \in 1..Len(s) : s[i] # "."
    THEN <<s>>
    ELSE LET k == CHOOSE i \in 1..Len(s) :
                      s[i] = "." /\ \A j \in 1..(i - 1) : s[j] # "."
         IN <<SubSeq(s, 1, k - 1)>> \o SplitDots(SubSeq(s, k + 1, Len(s)))

AllDigits(g) == g # <<>> /\ \A i \in 1..Len(g) : g[i] \in Digits

\* strconv.ParseUint of a group of digits.
RECURSIVE ParseUint(_)
ParseUint(g) ==
    IF g = <<>> THEN 0
    ELSE 10 * ParseUint(SubSeq(g, 1, Len(g) - 1)) + DigitVal(g[Len(g)])

\* The largest value of 64 bits without sign, in digits.
MaxUint64 ==
    <<"1", "8", "4", "4", "6", "7", "4", "4", "0", "7",
      "3", "7", "0", "9", "5", "5", "1", "6", "1", "5">>

RECURSIVE TrimZeros(_)
TrimZeros(g) == IF g # <<>> /\ Head(g) = "0" THEN TrimZeros(Tail(g)) ELSE g

\* a <= b, for two digit texts of the same length.
RECURSIVE DigitsLessEq(_, _)
DigitsLessEq(a, b) ==
    IF a = <<>> THEN TRUE
    ELSE IF DigitVal(Head(a)) # DigitVal(Head(b)) THEN DigitVal(Head(a)) < DigitVal(Head(b))
    ELSE DigitsLessEq(Tail(a), Tail(b))

\* strconv.ParseUint(g, 10, 64) does not report a value out of range.
InRange(g) ==
    LET d == TrimZeros(g)
    IN \/ Len(d) < Len(MaxUint64)
       \/ Len(d) = Len(MaxUint64) /\ DigitsLessEq(d, MaxUint64)

\* ------------------------------------------------------- version selection

\* patternImageTag: ^\d+(\.\d+)?(\.\d+)?$
patternImageTagMatch(tag) ==
    LET g == SplitDots(tag)
    IN Len(g) \in 1..3 /\ \A i \in 1..Len(g) : AllDigits(g[i])

stdSkipTagFuncNever(tag) == FALSE

stdSkipTagFunc(tag) == ~patternImageTagMatch(tag)

\* semver.NewVersion, on texts without pre-release or build metadata: an
\* optional "v", then one to three dot-separated groups of digits, each of
\* which must fit 64 bits; missing groups are 0 and the original text is kept.
NewVersion(tag) ==
    LET body == IF tag # <<>> /\ Head(tag) = "v" THEN Tail(tag) ELSE tag
        g == SplitDots(body)
        okay == /\ Len(g) \in 1..3
                /\ \A i \in 1..Len(g) : AllDigits(g[i]) /\ InRange(g[i])
    IN IF okay
       THEN [err |-> FALSE, original |-> tag,
             major |-> ParseUint(g[1]),
             minor |-> IF Len(g) >= 2 THEN ParseUint(g[2]) ELSE 0,
             patch |-> IF Len(g) >= 3 THEN ParseUint(g[3]) ELSE 0]
       ELSE [err |-> TRUE, original |-> tag, major |-> 0, minor |-> 0, patch |-> 0]

\* Version.Compare: -1, 0 or 1 by major, then minor, then patch.
Compare(a, b) ==
    IF a.major # b.major THEN (IF a.major < b.major THEN -1 ELSE 1)
    ELSE IF a.minor # b.minor THEN (IF a.minor < b.minor THEN -1 ELSE 1)
    ELSE IF a.patch # b.patch THEN (IF a.patch < b.patch THEN -1 ELSE 1)
    ELSE 0

LessThan(a, b) == Compare(a, b) < 0

\* One comparison of a constraint: an operator and a partial version, whose
\* missing parts are 0.
Comparison(op, text) ==
    LET v == NewVersion(text)
    IN [op |-> op, major |-> v.major, minor |-> v.minor, patch |-> v.patch]

NewConstraintNoDefault(expr) ==
    CASE expr = ">= 1" -> [err |-> FALSE, all |-> <<Comparison(">=", <<"1">>)>>]
      [] expr = "< 2" -> [err |-> FALSE, all |-> <<Comparison("<", <<"2">>)>>]
      [] expr = ">= 12.0, < 13.0" ->
            [err |-> FALSE,
             all |-> <<Comparison(">=", <<"1", "2", ".", "0">>),
                       Comparison("<", <<"1", "3", ".", "0">>)>>]
      [] OTHER -> [err |-> TRUE, all |-> <<>>]

\* semver.NewConstraint on the constraint expressions of the model: comma
\* separated comparisons, all of which must hold. The empty expression, the
\* default of the -v flag ("If not set, all versions are built"), is the
\* comparison >= 0.0.0. An expression that is neither empty nor made of
\* comparisons, as "one", is refused as an improper constraint.
NewConstraint(expr) ==
    CASE expr = "" ->
            [err |-> FALSE, all |-> <<Comparison(">=", <<"0", ".", "0", ".", "0">>)>>]
      [] expr = ">= 1" -> [err |-> FALSE, all |-> <<Comparison(">=", <<"1">>)>>]
      [] expr = "< 2" -> [err |-> FALSE, all |-> <<Comparison("<", <<"2">>)>>]
      [] expr = ">= 12.0, < 13.0" ->
            [err |-> FALSE,
             all |-> <<Comparison(">=", <<"1", "2", ".", "0">>),
                       Comparison("<", <<"1", "3", ".", "0">>)>>]
      [] OTHER -> [err |-> TRUE, all |-> <<>>]

\* One comparison applied to a version.
Holds(cmp, v) ==
    CASE cmp.op = ">=" -> Compare(v, cmp) >= 0
      [] cmp.op = "<" -> Compare(v, cmp) < 0
      [] OTHER -> FALSE

CheckFirstOnly(c, v) == c.all = <<>> \/ Holds(c.all[1], v)

\* Constraints.Check
Check(c, v) == \A i \in 1..Len(c.all) : Holds(c.all[i], v)

RECURSIVE FilterTagsDedup(_, _)
FilterTagsDedup(rawTags, c) ==
    IF rawTags = <<>> THEN <<>>
    ELSE LET tag == TrimSpace(Head(rawTags))
             version == NewVersion(tag)
             rest == FilterTagsDedup(Tail(rawTags), c)
         IN IF stdSkipTagFunc(tag) THEN rest
            ELSE IF version.err THEN rest
            ELSE IF ~Check(c, version) THEN rest
            ELSE IF \E n \in 1..Len(rest) : Compare(rest[n], version) = 0 THEN rest
            ELSE <<version>> \o rest

\* The filter loop of realMain: every tag is trimmed, skipped when it is not a
\* plain version, when it does not parse or when the constraint refuses it,
\* and appended otherwise.
RECURSIVE FilterTags(_, _)
FilterTags(rawTags, c) ==
    IF rawTags = <<>> THEN <<>>
    ELSE LET tag == TrimSpace(Head(rawTags))
             version == NewVersion(tag)
             rest == FilterTags(Tail(rawTags), c)
         IN IF stdSkipTagFunc(tag) THEN rest
            ELSE IF version.err THEN rest
            ELSE IF ~Check(c, version) THEN rest
            ELSE <<version>> \o rest

\* The tags the filter loop warns about, in order: those that are not
\* skipped by the pattern and do not parse as a version.
RECURSIVE ParseWarnings(_)
ParseWarnings(rawTags) ==
    IF rawTags = <<>> THEN <<>>
    ELSE LET tag == TrimSpace(Head(rawTags))
         IN (IF ~stdSkipTagFunc(tag) /\ NewVersion(tag).err THEN <<tag>> ELSE <<>>)
            \o ParseWarnings(Tail(rawTags))

\* One insertion of sort's insertion sort: data[i] moves down while it is
\* less than its left neighbour.
RECURSIVE SinkDown(_, _)
SinkDown(data, j) ==
    IF j > 1 /\ LessThan(data[j], data[j - 1])
    THEN SinkDown([data EXCEPT ![j] = data[j - 1], ![j - 1] = data[j]], j - 1)
    ELSE data

RECURSIVE InsertionSortFrom(_, _)
InsertionSortFrom(data, i) ==
    IF i > Len(data) THEN data
    ELSE InsertionSortFrom(SinkDown(data, i), i + 1)

SortUnsorted(versions) == versions

\* sort.Sort(semver.Collection(versions)): for the short slices of the model
\* the standard library sorts by insertion.
Sort(versions) == InsertionSortFrom(versions, 2)

SelectVersions(rawTags, c) == Sort(FilterTags(rawTags, c))

\* ------------------------------------------------------------------ errors

\* An error value: the chain of messages it was wrapped with (outermost first)
\* and whether errors.Is(err, context.Canceled) holds of it. The nil error has
\* an empty chain.
Nil == [chain |-> <<>>, canceled |-> FALSE]

NewError(msg, canceled) == [chain |-> <<msg>>, canceled |-> canceled]

\* fmt.Errorf("<msg>: %w", err)
Wrap(msg, err) == [err EXCEPT !.chain = <<msg>> \o @]

IsNil(err) == err.chain = <<>>

\* ------------------------------------------------------ docker image client

Missing == <<"<missing>">>

DaemonID(hex) == <<"sha256:", hex>>

EmptyID == <<>>

\* strings.TrimPrefix(id, "sha256:")
TrimPrefix(id) == IF id # <<>> /\ Head(id) = "sha256:" THEN Tail(id) ELSE id

LastKnownIDFirst(imageHistory, baseID) ==
    LET known == {i \in 1..Len(imageHistory) : imageHistory[i] # Missing}
    IN IF known = {} THEN baseID
       ELSE TrimPrefix(imageHistory[CHOOSE i \in known : \A j \in known : i <= j])

\* The loop of getImageIDAndBaseID over the image history: the last entry
\* that is not <missing>, trimmed.
RECURSIVE LastKnownID(_, _)
LastKnownID(imageHistory, baseID) ==
    IF imageHistory = <<>> THEN baseID
    ELSE IF Head(imageHistory) = Missing
         THEN LastKnownID(Tail(imageHistory), baseID)
         ELSE LastKnownID(Tail(imageHistory), TrimPrefix(Head(imageHistory)))

\* imageClient.getImageIDAndBaseID against a daemon that answers resp.
getImageIDAndBaseID(resp) ==
    IF resp.fail = "list"
    THEN [err |-> NewError("list images", resp.canceled), imageID |-> EmptyID, baseID |-> EmptyID]
    ELSE IF Len(resp.images) = 0
    THEN [err |-> NewError("image not found", FALSE), imageID |-> EmptyID, baseID |-> EmptyID]
    ELSE IF resp.fail = "history"
    THEN [err |-> NewError("get image history", resp.canceled), imageID |-> EmptyID, baseID |-> EmptyID]
    ELSE LET imageID == TrimPrefix(resp.images[1])
             baseID == LastKnownID(resp.history, EmptyID)
         IN IF baseID = EmptyID
            THEN [err |-> NewError("could not find base image id", FALSE),
                  imageID |-> EmptyID, baseID |-> EmptyID]
            ELSE [err |-> Nil, imageID |-> imageID, baseID |-> baseID]

ScanFromStopsAtError(lines, errLines, read) ==
    LET first == {i \in 1..Len(lines) : lines[i] = "error"}
    IN IF first = {} THEN [errLines |-> <<>>, read |-> Len(lines)]
       ELSE [errLines |-> <<"error">>,
             read |-> CHOOSE i \in first : \A j \in first : i <= j]

\* The scanner loop of Build over the output stream: every line is read, and
\* those that decode as a structured error (a non-empty error field) are
\* collected. The loop ends when the stream does.
RECURSIVE ScanFrom(_, _, _)
ScanFrom(lines, errLines, read) ==
    IF read >= Len(lines) THEN [errLines |-> errLines, read |-> read]
    ELSE ScanFrom(lines,
                  IF lines[read + 1] = "error" THEN Append(errLines, lines[read + 1])
                  ELSE errLines,
                  read + 1)

\* The lines of the build output that decode as a structured error.
ErrLines(lines) == ScanFrom(lines, <<>>, 0).errLines

\* imageClient.Build; read is the number of lines of the output stream the
\* call has read when it returns.
Build(resp, tags) ==
    LET failed(e, n) == [err |-> e, imageID |-> EmptyID, baseID |-> EmptyID, read |-> n]
        scan == ScanFrom(resp.lines, <<>>, 0)
    IN IF Len(tags) = 0 THEN failed(NewError("no tags provided", FALSE), 0)
       ELSE IF resp.fail = "tar" THEN failed(NewError("create build context", FALSE), 0)
       ELSE IF resp.fail = "transport" THEN failed(NewError("build image", resp.canceled), 0)
       ELSE IF Len(scan.errLines) > 0 THEN failed(NewError("build image", FALSE), scan.read)
       ELSE LET ids == getImageIDAndBaseID(resp)
            IN IF ~IsNil(ids.err) THEN failed(Wrap("get image id", ids.err), scan.read)
               ELSE [err |-> Nil, imageID |-> ids.imageID, baseID |-> ids.baseID,
                     read |-> scan.read]

PushFromKeepsGoing(images, resps, i) ==
    LET failing == {j \in i..Len(images) : resps[j].fail}
        first == CHOOSE j \in failing : \A k \in failing : j <= k
    IN [err |-> IF failing = {} THEN Nil ELSE NewError("push", resps[first].canceled),
        attempted |-> Len(images),
        pushed |-> SubSeq(images, i, Len(images))]

\* imageClient.Push: the images one at a time, in order; the first failing
\* ImagePush ends the call. The response stream is read and logged, no more.
\* pushed lists the images an ImagePush was issued for, in the order issued.
RECURSIVE PushFrom(_, _, _)
PushFrom(images, resps, i) ==
    IF i > Len(images) THEN [err |-> Nil, attempted |-> i - 1, pushed |-> <<>>]
    ELSE IF resps[i].fail
         THEN [err |-> NewError("push", resps[i].canceled), attempted |-> i,
               pushed |-> <<images[i]>>]
         ELSE [PushFrom(images, resps, i + 1) EXCEPT !.pushed = <<images[i]>> \o @]

Push(images, resps) == PushFrom(images, resps, 1)

\* imageClient.Remove: the identifiers one at a time, in order; the first
\* failing ImageRemove ends the call.
RECURSIVE RemoveFrom(_, _, _)
RemoveFrom(ids, resps, i) ==
    IF i > Len(ids) THEN [err |-> Nil, attempted |-> i - 1]
    ELSE IF resps[i] # "ok"
         THEN [err |-> NewError("remove image", FALSE), attempted |-> i]
         ELSE RemoveFrom(ids, resps, i + 1)

Remove(ids, resps) == RemoveFrom(ids, resps, 1)

\* ----------------------------------------------------------- the run's data

defaultSourceRepo == "postgres"

defaultBuildDirectory == "mimikry"

TargetRepo == "johndoe/some-repo"

Latest == <<"l", "a", "t", "e", "s", "t">>

\* fmt.Sprintf("%s:%s", repo, tag)
ImageTag(repo, tag) == [repo |-> repo, tag |-> tag]

\* getTagBuildDir / filepath.Join(baseDir, version)
getTagBuildDir(baseDir, version) == [base |-> baseDir, version |-> version]

\* One call the run made: the operation, the iteration it was made in (0
\* outside the loop), its arguments, the error it returned and its results.
Call(op, idx, args, err, out) ==
    [op |-> op, idx |-> idx, args |-> args, err |-> err, out |-> out]

\* The raw tags the pipeline is run on.
PipelineTags == {<<"2">>, <<"1", ".", "0">>, <<"0", ".", "9">>}

\* The constraint expressions the pipeline is run with.
PipelineConstraints == {">= 1", "one"}

BuildDirs == {defaultBuildDirectory}

Options ==
    [VersionConstraint : PipelineConstraints, TagLatest : BOOLEAN,
     DryRun : BOOLEAN, KeepBuildDirs : BOOLEAN, BuildDir : BuildDirs,
     TargetRepo : {TargetRepo}]

\* The state of realMain at its first statement, run with opts against a
\* registry (and a cache file) holding the raw tags upstream.
StartOfRun(opts, upstream) ==
    [pc |-> "parseConstraint",
     opts |-> opts,
     upstream |-> upstream,
     versionConstraint |-> NewConstraint(""),
     cache |-> [Image |-> "", Modified |-> [wall |-> 0, mono |-> FALSE], Tags |-> <<>>],
     versions |-> <<>>,
     numTags |-> 0,
     idx |-> 0,
     previousImage |-> EmptyID,
     previousBaseImage |-> EmptyID,
     buildDirectory |-> getTagBuildDir("", <<>>),
     tags |-> <<>>,
     imageID |-> EmptyID,
     baseID |-> EmptyID,
     pathsToCleanup |-> <<>>,
     defers |-> <<>>,
     err |-> Nil,
     exit |-> -1,
     calls |-> <<>>]

\* The state of main when it has read its options and is about to parse the
\* templates.
StartOfMain(opts, upstream) == [StartOfRun(opts, upstream) EXCEPT !.pc = "parseTemplates"]

ReturnLogsAndContinues(s, err) ==
    IF s.pc \in {"prepare", "build", "push", "clean"}
    THEN [s EXCEPT !.pc = "loop"]
    ELSE [s EXCEPT !.pc = "deferred", !.err = err]

\* A return statement of realMain: the result is fixed and the deferred
\* functions are still to run.
Return(s, err) == [s EXCEPT !.pc = "deferred", !.err = err]

Logged(s, call) == [s EXCEPT !.calls = Append(@, call)]

\* ------------------------------------------------- what the world answers

\* template.ParseGlob on the template directory.
TemplateOutcomes == {"ok", "error"}

PingOutcomes == {"ok", "error"}

\* docker credentials of the environment and the registry's answer to them.
LoginOutcomes == {"ok", "empty", "refused"}

ErrNoTagCache == NewError("no tag cache found", FALSE)

ErrInvalidTagCache == NewError("invalid tag cache", FALSE)

\* A time.Time: the wall clock instant, and whether the value carries a
\* monotonic clock reading as the results of time.Now() do.
ZeroTime == [wall |-> 0, mono |-> FALSE]

IsZero(t) == t.wall = 0

AfterAlways(t, u) == TRUE

\* Time.After between a file's modification time, which has no monotonic
\* reading, and another time: by wall clock.
After(t, u) == t.wall > u.wall

\* time.Now() of the pipeline's runs.
Now == [wall |-> 2, mono |-> TRUE]

NoCache == [Image |-> "", Modified |-> ZeroTime, Tags |-> <<>>]

\* encoding/json on a string: quoted, with quotes and backslashes escaped.
EscapeChar(c) == IF c \in {"\"", "\\"} THEN <<"\\", c>> ELSE <<c>>

RECURSIVE Escape(_)
Escape(text) == IF text = <<>> THEN <<>> ELSE EscapeChar(Head(text)) \o Escape(Tail(text))

EncodeText(text) == <<"\"">> \o Escape(text) \o <<"\"">>

RECURSIVE Unescape(_)
Unescape(body) ==
    IF body = <<>> THEN <<>>
    ELSE IF Head(body) = "\\" /\ Len(body) >= 2
    THEN <<body[2]>> \o Unescape(SubSeq(body, 3, Len(body)))
    ELSE <<Head(body)>> \o Unescape(Tail(body))

DecodeText(json) == Unescape(SubSeq(json, 2, Len(json) - 1))

\* An image name as a text of one piece, and back.
ImageText(image) == IF image = "" THEN <<>> ELSE <<image>>

TextImage(text) == IF text = <<>> THEN "" ELSE text[1]

\* json.NewEncoder(file).Encode(cache): the image name and the tags as JSON
\* strings, the time in RFC 3339 without its monotonic reading.
EncodeCache(cache) ==
    [image |-> EncodeText(ImageText(cache.Image)),
     modified |-> [rfc3339 |-> cache.Modified.wall],
     tags |-> [i \in 1..Len(cache.Tags) |-> EncodeText(cache.Tags[i])]]

\* json.NewDecoder(file).Decode(&cache)
DecodeCache(doc) ==
    [Image |-> TextImage(DecodeText(doc.image)),
     Modified |-> [wall |-> doc.modified.rfc3339, mono |-> FALSE],
     Tags |-> [i \in 1..Len(doc.tags) |-> DecodeText(doc.tags[i])]]

\* The cache file: missing, unreadable, not to be stat'ed, of size zero, not
\* JSON, or a JSON document; and its modification time.
File(state, doc, modTime) == [state |-> state, doc |-> doc, modTime |-> modTime]

MissingFile == File("missing", EncodeCache(NoCache), ZeroTime)

\* The cache file a run may find.
CacheFiles(upstream) ==
    {File(st, EncodeCache(NoCache), ZeroTime) :
        st \in {"missing", "unreadable", "unstatable", "empty", "garbage"}}
    \cup {File("json", EncodeCache([Image |-> i, Modified |-> [wall |-> 1, mono |-> FALSE],
                                    Tags |-> t]),
               [wall |-> 1, mono |-> FALSE]) :
            i \in {"", defaultSourceRepo}, t \in {<<>>, upstream}}

\* loadTagCache
loadTagCache(file) ==
    IF file.state = "unreadable"
    THEN [cache |-> NoCache, err |-> NewError("open tag cache file", FALSE)]
    ELSE IF file.state = "missing" THEN [cache |-> NoCache, err |-> ErrNoTagCache]
    ELSE IF file.state = "unstatable"
    THEN [cache |-> NoCache, err |-> NewError("stat tag cache file", FALSE)]
    ELSE IF file.state = "empty" THEN [cache |-> NoCache, err |-> ErrNoTagCache]
    ELSE IF file.state = "garbage"
    THEN [cache |-> NoCache, err |-> NewError("decode tag cache", FALSE)]
    ELSE LET cache == DecodeCache(file.doc)
         IN IF cache.Image = "" \/ Len(cache.Tags) = 0
            THEN [cache |-> NoCache, err |-> ErrInvalidTagCache]
            ELSE IF ~IsZero(file.modTime) /\ After(file.modTime, cache.Modified)
            THEN [cache |-> [cache EXCEPT !.Modified = file.modTime], err |-> Nil]
            ELSE [cache |-> cache, err |-> Nil]

\* What may happen to a saveTagCache: the directory or the file cannot be
\* created, the encoder's write fails with nothing or with a part written.
SaveTagCacheOutcomes == {"ok", "mkdir", "create", "encode", "short"}

\* saveTagCache, on the file as it was: the error, and the file as it is left.
saveTagCache(file, cache, outcome, clock) ==
    IF outcome = "mkdir"
    THEN [err |-> NewError("create tag cache directory", FALSE), file |-> file]
    ELSE IF outcome = "create"
    THEN [err |-> NewError("create tag cache file", FALSE), file |-> file]
    ELSE IF outcome = "encode"
    THEN [err |-> NewError("encode tag cache", FALSE),
          file |-> File("empty", EncodeCache(NoCache), clock)]
    ELSE IF outcome = "short"
    THEN [err |-> NewError("encode tag cache", FALSE),
          file |-> File("garbage", EncodeCache(NoCache), clock)]
    ELSE [err |-> Nil, file |-> File("json", EncodeCache(cache), clock)]

FetchOutcomes == {"ok", "error"}

PrepareOutcomes == {"ok", "mkdir", "template"}

ImageHex == {"a", "b"}

BaseHex == {"p"}

\* What the daemon may answer to one Build: a failure before or during the
\* build call, an output stream with or without an error line, and then the
\* image list and the image history the identifiers are resolved from.
BuildResponses ==
    {[fail |-> f, canceled |-> c, lines |-> <<>>, images |-> <<>>, history |-> <<>>] :
        f \in {"tar", "transport", "list", "history"}, c \in BOOLEAN}
    \cup {[fail |-> "none", canceled |-> FALSE, lines |-> <<"log", "error", "log">>,
           images |-> <<DaemonID("a")>>, history |-> <<DaemonID("a"), DaemonID("p"), Missing>>]}
    \cup {[fail |-> "none", canceled |-> FALSE, lines |-> <<"log">>, images |-> <<>>,
           history |-> <<>>]}
    \cup UNION {{[fail |-> "none", canceled |-> FALSE, lines |-> <<"log">>,
                  images |-> <<DaemonID(i), DaemonID("z")>>, history |-> h] :
                    h \in {<<Missing, Missing>>} \cup
                          {<<DaemonID(i), DaemonID(b), Missing>> : b \in BaseHex}} :
                i \in ImageHex}
    \cup {[fail |-> "none", canceled |-> FALSE, lines |-> <<"log">>,
           images |-> <<<<"sha256:">>>>, history |-> <<DaemonID("p"), Missing>>]}

\* The answers the pipeline is run against: a failed build call, an error line
\* in the output, an image without an identifier, and successful builds of
\* different images.
PipelineBuildResponses ==
    {r \in BuildResponses :
        \/ r.fail = "transport"
        \/ r.fail = "none" /\ r.images # <<>> /\ r.history # <<Missing, Missing>>}

\* What the daemon may answer to the push of one tag.
PushResponses ==
    {[fail |-> FALSE, canceled |-> FALSE, errorLine |-> e] : e \in BOOLEAN}
    \cup {[fail |-> TRUE, canceled |-> c, errorLine |-> FALSE] : c \in BOOLEAN}

\* What the daemon may answer to the removal of one identifier.
RemoveResponses == {"ok", "notfound", "error"}

\* ------------------------------------------------------- realMain, by step

\* main parses the template files before it calls realMain; a failure is
\* logged and the process exits with status 1 at once.
ParseTemplatesStep(s, outcome) ==
    IF outcome = "ok" THEN [s EXCEPT !.pc = "parseConstraint"]
    ELSE [s EXCEPT !.pc = "exited", !.err = NewError("parse templates", FALSE), !.exit = 1]

ParseConstraintStepNotFatal(s) ==
    [s EXCEPT !.versionConstraint = NewConstraint(">= 1"), !.pc = "newClient"]

\* semver.NewConstraint(opts.VersionConstraint)
ParseConstraintStep(s) ==
    LET c == NewConstraint(s.opts.VersionConstraint)
    IN IF c.err
       THEN Return(s, NewError("parse version constraint", FALSE))
       ELSE [s EXCEPT !.versionConstraint = c, !.pc = "newClient"]

\* docker.New: the client is created and the daemon pinged.
NewClientStep(s, ping, canceled) ==
    LET err == IF ping = "ok" THEN Nil
               ELSE Wrap("create docker client", NewError("ping docker daemon", canceled))
        t == Logged(s, Call("Ping", 0, <<>>, err, <<>>))
    IN IF ~IsNil(err) THEN Return(t, err)
       ELSE [t EXCEPT !.defers = <<"Close">> \o @, !.pc = "login"]

\* Client.Login with the credentials of the environment.
Login(outcome) ==
    IF outcome = "empty" THEN NewError("docker login failed", FALSE)
    ELSE IF outcome = "refused" THEN NewError("login to docker registry", FALSE)
    ELSE Nil

LoginStepIgnoresFailure(s, outcome) ==
    IF ~s.opts.DryRun
    THEN [Logged(s, Call("Login", 0, <<>>, Login(outcome), <<>>)) EXCEPT
              !.defers = <<"Logout">> \o @, !.pc = "loadCache"]
    ELSE [s EXCEPT !.pc = "loadCache"]

\* The login of realMain, skipped in a dry run.
LoginStep(s, outcome) ==
    IF ~s.opts.DryRun
    THEN LET err == Login(outcome)
             t == Logged(s, Call("Login", 0, <<>>, err, <<>>))
         IN IF ~IsNil(err) THEN Return(t, Wrap("login to docker", err))
            ELSE [t EXCEPT !.defers = <<"Logout">> \o @, !.pc = "loadCache"]
    ELSE [s EXCEPT !.pc = "loadCache"]

LoadCacheStepAborts(s, file) ==
    LET r == loadTagCache(file)
        t == Logged(s, Call("loadTagCache", 0, <<>>, Nil, r.cache))
    IN IF r.cache # NoCache
       THEN [t EXCEPT !.cache = r.cache, !.pc = "select"]
       ELSE IF r.err \notin {ErrNoTagCache} /\ file.state # "missing"
       THEN Return(t, Wrap("load tag cache", r.err))
       ELSE [t EXCEPT !.pc = "fetch"]

LoadCacheStepAlwaysFetches(s, file) ==
    LET r == loadTagCache(file)
        t == Logged(s, Call("loadTagCache", 0, <<>>, Nil, r.cache))
    IN IF r.cache # NoCache
       THEN [t EXCEPT !.cache = r.cache, !.pc = "fetch"]
       ELSE [t EXCEPT !.pc = "fetch"]

\* The tag cache is tried first; a failure to load it is logged at debug level
\* and dropped.
LoadCacheStep(s, file) ==
    LET r == loadTagCache(file)
        t == Logged(s, Call("loadTagCache", 0, <<>>, Nil, r.cache))
    IN IF r.cache # NoCache
       THEN [t EXCEPT !.cache = r.cache, !.pc = "select"]
       ELSE [t EXCEPT !.pc = "fetch"]

\* docker.GetDockerHubRepoTags(defaultSourceRepo)
FetchStep(s, outcome, canceled) ==
    LET err == IF outcome = "ok" THEN Nil ELSE NewError("get tags", canceled)
        tagList == IF outcome = "ok" THEN s.upstream ELSE <<>>
        t == Logged(s, Call("GetDockerHubRepoTags", 0, defaultSourceRepo, err, tagList))
    IN IF ~IsNil(err) THEN Return(t, Wrap("load remote tags", err))
       ELSE [t EXCEPT !.cache = [Image |-> defaultSourceRepo, Modified |-> Now,
                                 Tags |-> tagList],
                      !.pc = "select"]

SelectStepFailsOnBadTag(s) ==
    LET versions == SelectVersions(s.cache.Tags, s.versionConstraint)
    IN IF ParseWarnings(s.cache.Tags) # <<>>
       THEN [s EXCEPT !.pc = "deferred", !.err = NewError("parse tag", FALSE)]
       ELSE [s EXCEPT !.versions = versions, !.numTags = Len(versions),
                      !.defers = <<"shutdown">> \o @,
                      !.previousImage = EmptyID, !.previousBaseImage = EmptyID,
                      !.idx = 0, !.pc = "loop"]

SelectStepKeepsSelection(s) ==
    LET versions == SelectVersions(s.cache.Tags, s.versionConstraint)
    IN [s EXCEPT !.versions = versions, !.numTags = Len(versions),
                 !.cache.Tags = [n \in 1..Len(versions) |-> versions[n].original],
                 !.defers = <<"shutdown">> \o @,
                 !.previousImage = EmptyID, !.previousBaseImage = EmptyID,
                 !.idx = 0, !.pc = "loop"]

\* The tags are filtered and sorted, the shutdown function is deferred and
\* the window starts empty.
SelectStep(s) ==
    LET versions == SelectVersions(s.cache.Tags, s.versionConstraint)
        warned == ParseWarnings(s.cache.Tags)
    IN [s EXCEPT !.versions = versions, !.numTags = Len(versions),
                 !.calls = @ \o [n \in 1..Len(warned) |->
                                    Call("Warnf", 0, warned[n], Nil, <<>>)],
                 !.defers = <<"shutdown">> \o @,
                 !.previousImage = EmptyID, !.previousBaseImage = EmptyID,
                 !.idx = 0, !.pc = "loop"]

LoopStepNoCheck(s, ctxErr) ==
    IF s.idx >= Len(s.versions) THEN Return(s, Nil)
    ELSE [s EXCEPT !.idx = @ + 1, !.pc = "prepare"]

LoopStepCheckFirst(s, ctxErr) ==
    IF ctxErr THEN Return(s, NewError("context canceled", TRUE))
    ELSE IF s.idx >= Len(s.versions) THEN Return(s, Nil)
    ELSE [s EXCEPT !.idx = @ + 1, !.pc = "prepare"]

\* The head of the loop: the next version, if any, and the cancellation
\* check. idx counts from 1 here (the code's idx + 1).
LoopStep(s, ctxErr) ==
    IF s.idx >= Len(s.versions) THEN Return(s, Nil)
    ELSE IF ctxErr THEN Return(s, NewError("context canceled", TRUE))
    ELSE [s EXCEPT !.idx = @ + 1, !.pc = "prepare"]

\* prepareBuildDirectory, by its outcome.
prepareBuildDirectory(outcome) ==
    IF outcome = "mkdir" THEN NewError("create build directory", FALSE)
    ELSE IF outcome = "template" THEN NewError("execute template", FALSE)
    ELSE Nil

IterationTagsAllLatest(s) ==
    LET version == s.versions[s.idx]
    IN <<ImageTag(s.opts.TargetRepo, version.original),
         ImageTag(s.opts.TargetRepo, Latest)>>

\* The tags of the iteration's image: the version's, and latest for the last
\* version when asked for.
IterationTags(s) ==
    LET version == s.versions[s.idx]
        imageTag == ImageTag(s.opts.TargetRepo, version.original)
    IN IF s.opts.TagLatest /\ s.idx - 1 = s.numTags - 1
       THEN <<imageTag, ImageTag(s.opts.TargetRepo, Latest)>>
       ELSE <<imageTag>>

PrepareStepAlwaysMarks(s, outcome) ==
    LET version == s.versions[s.idx]
        buildDirectory == getTagBuildDir(s.opts.BuildDir, version.original)
        err == prepareBuildDirectory(outcome)
        t == Logged([s EXCEPT !.buildDirectory = buildDirectory],
                    Call("prepareBuildDirectory", s.idx, buildDirectory, err, <<>>))
    IN IF ~IsNil(err) THEN Return(t, Wrap("create version directory", err))
       ELSE [t EXCEPT !.pathsToCleanup = Append(@, buildDirectory),
                      !.tags = IterationTags(s),
                      !.pc = "build"]

\* The build directory is prepared and marked for cleanup, the tags are set.
PrepareStep(s, outcome) ==
    LET version == s.versions[s.idx]
        buildDirectory == getTagBuildDir(s.opts.BuildDir, version.original)
        err == prepareBuildDirectory(outcome)
        t == Logged([s EXCEPT !.buildDirectory = buildDirectory],
                    Call("prepareBuildDirectory", s.idx, buildDirectory, err, <<>>))
    IN IF ~IsNil(err) THEN Return(t, Wrap("create version directory", err))
       ELSE [t EXCEPT !.pathsToCleanup =
                          IF ~s.opts.KeepBuildDirs THEN Append(@, buildDirectory) ELSE @,
                      !.tags = IterationTags(s),
                      !.pc = "build"]

\* The image is built from the version's directory under the default build
\* directory; empty identifiers are an error.
BuildStep(s, resp) ==
    LET version == s.versions[s.idx]
        buildDirectory == getTagBuildDir(defaultBuildDirectory, version.original)
        r == Build(resp, s.tags)
        t == Logged([s EXCEPT !.buildDirectory = buildDirectory],
                    Call("Build", s.idx, [dir |-> buildDirectory, tags |-> s.tags],
                         r.err, [imageID |-> r.imageID, baseID |-> r.baseID]))
    IN IF ~IsNil(r.err) THEN Return(t, Wrap("build image", r.err))
       ELSE IF r.imageID = EmptyID \/ r.baseID = EmptyID
       THEN Return(t, Wrap("build image", NewError("image id or base id is empty", FALSE)))
       ELSE [t EXCEPT !.imageID = r.imageID, !.baseID = r.baseID, !.pc = "push"]

PushStepAlways(s, resps) ==
    LET r == Push(s.tags, resps)
        t == Logged(s, Call("Push", s.idx, s.tags, r.err, r.attempted))
    IN IF ~IsNil(r.err) THEN Return(t, Wrap("push image", r.err))
       ELSE [t EXCEPT !.pc = "clean"]

PushStepDrySkipsClean(s, resps) ==
    IF ~s.opts.DryRun THEN PushStepAlways(s, resps)
    ELSE [s EXCEPT !.pc = "loop"]

\* The image is pushed, unless this is a dry run.
PushStep(s, resps) ==
    IF ~s.opts.DryRun
    THEN LET r == Push(s.tags, resps)
             t == Logged(s, Call("Push", s.idx, s.tags, r.err, r.attempted))
         IN IF ~IsNil(r.err) THEN Return(t, Wrap("push image", r.err))
            ELSE [t EXCEPT !.pc = "clean"]
    ELSE [s EXCEPT !.pc = "clean"]

\* The last log line of an iteration: "Done with image <version>".
Done(s) == Call("Done", s.idx, s.versions[s.idx].original, Nil, <<>>)

ImagesToRemoveCurrent(s) == <<s.imageID, s.baseID>>

ImagesToRemoveNone(s) == <<>>

\* The identifiers of the window that are not empty.
ImagesToRemove(s) ==
    (IF s.previousImage # EmptyID THEN <<s.previousImage>> ELSE <<>>)
    \o (IF s.previousBaseImage # EmptyID THEN <<s.previousBaseImage>> ELSE <<>>)

CleanStepTolerant(s, resps) ==
    LET imagesToRemove == ImagesToRemove(s)
        r == Remove(imagesToRemove, resps)
        t == IF Len(imagesToRemove) > 0
             THEN Logged(s, Call("Remove", s.idx, imagesToRemove, r.err, r.attempted))
             ELSE s
    IN [Logged(t, Done(s)) EXCEPT
            !.previousImage = s.imageID, !.previousBaseImage = s.baseID,
            !.pc = "loop"]

CleanStepAdvancesOnFailure(s, resps) ==
    LET imagesToRemove == ImagesToRemove(s)
        r == Remove(imagesToRemove, resps)
        t == IF Len(imagesToRemove) > 0
             THEN Logged(s, Call("Remove", s.idx, imagesToRemove, r.err, r.attempted))
             ELSE s
    IN IF Len(imagesToRemove) > 0 /\ ~IsNil(r.err)
       THEN [Return(t, Wrap("remove images", r.err)) EXCEPT
                 !.previousImage = s.imageID, !.previousBaseImage = s.baseID]
       ELSE [Logged(t, Done(s)) EXCEPT
                 !.previousImage = s.imageID, !.previousBaseImage = s.baseID,
                 !.pc = "loop"]

\* The window's images are removed and the window takes the identifiers of
\* the image just built.
CleanStep(s, resps) ==
    LET imagesToRemove == ImagesToRemove(s)
        r == Remove(imagesToRemove, resps)
        t == IF Len(imagesToRemove) > 0
             THEN Logged(s, Call("Remove", s.idx, imagesToRemove, r.err, r.attempted))
             ELSE s
    IN IF Len(imagesToRemove) > 0 /\ ~IsNil(r.err)
       THEN Return(t, Wrap("remove images", r.err))
       ELSE [Logged(t, Done(s)) EXCEPT
                 !.previousImage = s.imageID, !.previousBaseImage = s.baseID,
                 !.pc = "loop"]

SaveOutcomes == {"ok", "error"}

RemoveAllOutcomes == {"ok", "error"}

\* One deferred function of realMain. The shutdown function saves the tag
\* cache and removes the build directories, logging what fails.
RECURSIVE RunDefers(_, _, _, _)
RunDefers(s, defers, save, removeAll) ==
    IF defers = <<>> THEN s
    ELSE LET d == Head(defers)
             t == IF d = "shutdown"
                  THEN Logged(Logged(s,
                         Call("saveTagCache", 0, s.cache,
                              saveTagCache(MissingFile, s.cache,
                                           IF save = "ok" THEN "ok" ELSE "create", Now).err,
                              <<>>)),
                         Call("cleanupBuildDirs", 0, s.pathsToCleanup, Nil,
                              [failed |-> removeAll # "ok" /\ s.pathsToCleanup # <<>>]))
                  ELSE Logged(s, Call(d, 0, <<>>, Nil, <<>>))
         IN RunDefers(t, Tail(defers), save, removeAll)

\* The exit status main gives the result of realMain.
ExitStatus(err) == IF ~IsNil(err) /\ ~err.canceled THEN 1 ELSE 0

\* realMain returns: its deferred functions run, last deferred first, and
\* main turns the result into the exit status.
DeferredStep(s, save, removeAll) ==
    LET t == RunDefers(s, s.defers, save, removeAll)
    IN [t EXCEPT !.defers = <<>>, !.exit = ExitStatus(s.err), !.pc = "exited"]

\* ---------------------------------------------------------------- actions

NoTwin == [pc |-> "none"]

\* A failure may be a cancellation only once the signal has been raised.
MayCancel(canceled) == canceled => cancelled

Init ==
    /\ \E opts \in Options, upstream \in SeqsUpTo(PipelineTags, MaxTags) :
           run = StartOfMain(opts, upstream)
    /\ twin = NoTwin
    /\ cancelled = FALSE

\* The interrupt signal arrives: the context of the run is cancelled.
Cancel ==
    /\ ~cancelled
    /\ run.pc # "exited"
    /\ cancelled' = TRUE
    /\ UNCHANGED <<run, twin>>

ParseTemplates ==
    /\ run.pc = "parseTemplates"
    /\ \E outcome \in TemplateOutcomes : run' = ParseTemplatesStep(run, outcome)
    /\ UNCHANGED <<twin, cancelled>>

ParseConstraint ==
    /\ run.pc = "parseConstraint"
    /\ run' = ParseConstraintStep(run)
    /\ UNCHANGED <<twin, cancelled>>

NewClient ==
    /\ run.pc = "newClient"
    /\ \E ping \in PingOutcomes, canceled \in BOOLEAN :
           /\ MayCancel(canceled)
           /\ run' = NewClientStep(run, ping, canceled)
    /\ UNCHANGED <<twin, cancelled>>

DoLogin ==
    /\ run.pc = "login"
    /\ \E outcome \in LoginOutcomes : run' = LoginStep(run, outcome)
    /\ UNCHANGED <<twin, cancelled>>

LoadCache ==
    /\ run.pc = "loadCache"
    /\ \E file \in CacheFiles(run.upstream) : run' = LoadCacheStep(run, file)
    /\ UNCHANGED <<twin, cancelled>>

Fetch ==
    /\ run.pc = "fetch"
    /\ \E outcome \in FetchOutcomes, canceled \in BOOLEAN :
           /\ MayCancel(canceled)
           /\ run' = FetchStep(run, outcome, canceled)
    /\ UNCHANGED <<twin, cancelled>>

Select ==
    /\ run.pc = "select"
    /\ run' = SelectStep(run)
    /\ UNCHANGED <<twin, cancelled>>

Loop ==
    /\ run.pc = "loop"
    /\ run' = LoopStep(run, cancelled)
    /\ UNCHANGED <<twin, cancelled>>

Prepare ==
    /\ run.pc = "prepare"
    /\ \E outcome \in PrepareOutcomes : run' = PrepareStep(run, outcome)
    /\ UNCHANGED <<twin, cancelled>>

DoBuild ==
    /\ run.pc = "build"
    /\ \E resp \in PipelineBuildResponses :
           /\ MayCancel(resp.canceled)
           /\ run' = BuildStep(run, resp)
    /\ UNCHANGED <<twin, cancelled>>

DoPush ==
    /\ run.pc = "push"
    /\ \E resps \in [1..Len(run.tags) -> PushResponses] :
           /\ \A i \in 1..Len(run.tags) : MayCancel(resps[i].canceled)
           /\ run' = PushStep(run, resps)
    /\ UNCHANGED <<twin, cancelled>>

Clean ==
    /\ run.pc = "clean"
    /\ \E resps \in [1..Len(ImagesToRemove(run)) -> RemoveResponses] :
           run' = CleanStep(run, resps)
    /\ UNCHANGED <<twin, cancelled>>

Deferred ==
    /\ run.pc = "deferred"
    /\ \E save \in SaveOutcomes, removeAll \in RemoveAllOutcomes :
           run' = DeferredStep(run, save, removeAll)
    /\ UNCHANGED <<twin, cancelled>>

Next ==
    \/ Cancel
    \/ ParseTemplates
    \/ ParseConstraint
    \/ NewClient
    \/ DoLogin
    \/ LoadCache
    \/ Fetch
    \/ Select
    \/ Loop
    \/ Prepare
    \/ DoBuild
    \/ DoPush
    \/ Clean
    \/ Deferred

Spec == Init /\ [][Next]_vars

\* ------------------------------------- a real run and a dry run, side by side

\* run is a real run and twin a dry run of the same options otherwise, on the
\* same tags, and the world answers both alike at every step. The real run's
\* login and pushes succeed.
InitPair ==
    /\ \E opts \in Options, upstream \in SeqsUpTo(PipelineTags, MaxTags) :
           /\ ~opts.DryRun
           /\ run = StartOfRun(opts, upstream)
           /\ twin = StartOfRun([opts EXCEPT !.DryRun = TRUE], upstream)
    /\ cancelled = FALSE

Together(pc) == run.pc = pc /\ twin.pc = pc

PairCancel ==
    /\ ~cancelled
    /\ run.pc # "exited"
    /\ cancelled' = TRUE
    /\ UNCHANGED <<run, twin>>

PairParseConstraint ==
    /\ Together("parseConstraint")
    /\ run' = ParseConstraintStep(run)
    /\ twin' = ParseConstraintStep(twin)
    /\ UNCHANGED cancelled

PairNewClient ==
    /\ Together("newClient")
    /\ \E ping \in PingOutcomes, canceled \in BOOLEAN :
           /\ MayCancel(canceled)
           /\ run' = NewClientStep(run, ping, canceled)
           /\ twin' = NewClientStep(twin, ping, canceled)
    /\ UNCHANGED cancelled

PairLogin ==
    /\ Together("login")
    /\ run' = LoginStep(run, "ok")
    /\ twin' = LoginStep(twin, "ok")
    /\ UNCHANGED cancelled

PairLoadCache ==
    /\ Together("loadCache")
    /\ \E file \in CacheFiles(run.upstream) :
           /\ run' = LoadCacheStep(run, file)
           /\ twin' = LoadCacheStep(twin, file)
    /\ UNCHANGED cancelled

PairFetch ==
    /\ Together("fetch")
    /\ \E outcome \in FetchOutcomes, canceled \in BOOLEAN :
           /\ MayCancel(canceled)
           /\ run' = FetchStep(run, outcome, canceled)
           /\ twin' = FetchStep(twin, outcome, canceled)
    /\ UNCHANGED cancelled

PairSelect ==
    /\ Together("select")
    /\ run' = SelectStep(run)
    /\ twin' = SelectStep(twin)
    /\ UNCHANGED cancelled

PairLoop ==
    /\ Together("loop")
    /\ run' = LoopStep(run, cancelled)
    /\ twin' = LoopStep(twin, cancelled)
    /\ UNCHANGED cancelled

PairPrepare ==
    /\ Together("prepare")
    /\ \E outcome \in PrepareOutcomes :
           /\ run' = PrepareStep(run, outcome)
           /\ twin' = PrepareStep(twin, outcome)
    /\ UNCHANGED cancelled

PairBuild ==
    /\ Together("build")
    /\ \E resp \in PipelineBuildResponses :
           /\ MayCancel(resp.canceled)
           /\ run' = BuildStep(run, resp)
           /\ twin' = BuildStep(twin, resp)
    /\ UNCHANGED cancelled

PairPush ==
    /\ Together("push")
    /\ \E resps \in [1..Len(run.tags) -> {r \in PushResponses : ~r.fail}] :
           /\ run' = PushStep(run, resps)
           /\ twin' = PushStep(twin, resps)
    /\ UNCHANGED cancelled

PairClean ==
    /\ Together("clean")
    /\ \E resps \in [1..Len(ImagesToRemove(run)) -> RemoveResponses] :
           /\ run' = CleanStep(run, resps)
           /\ twin' = CleanStep(twin, resps)
    /\ UNCHANGED cancelled

PairDeferred ==
    /\ Together("deferred")
    /\ \E save \in SaveOutcomes, removeAll \in RemoveAllOutcomes :
           /\ run' = DeferredStep(run, save, removeAll)
           /\ twin' = DeferredStep(twin, save, removeAll)
    /\ UNCHANGED cancelled

NextPair ==
    \/ PairCancel
    \/ PairParseConstraint
    \/ PairNewClient
    \/ PairLogin
    \/ PairLoadCache
    \/ PairFetch
    \/ PairSelect
    \/ PairLoop
    \/ PairPrepare
    \/ PairBuild
    \/ PairPush
    \/ PairClean
    \/ PairDeferred

SpecPair == InitPair /\ [][NextPair]_vars

\* ----------------------------------------------- the selection, tag by tag

\* The characters raw tags are made of when the selection is examined: a
\* digit, the dot, the "v" semver accepts as a prefix, and the blank.
Alphabet == {"1", ".", "v", " "}

\* Every raw tag of up to MaxTagLen characters, and two longer ones: four
\* groups of digits, and three groups between blanks.
CandidateTags ==
    SeqsUpTo(Alphabet, MaxTagLen)
    \cup {<<"1", ".", "1", ".", "1", ".", "1">>, <<" ", "1", ".", "1", ".", "1", " ">>,
          [i \in 1..Len(MaxUint64) |-> "9"]}

\* The tags before and after the tag under examination.
TagContexts ==
    {[pre |-> <<>>, post |-> <<>>],
     [pre |-> <<<<"1", "1">>>>, post |-> <<<<"1">>>>],
     [pre |-> <<<<"1", ".", "1", ".", "0">>>>, post |-> <<<<"1", ".", "1">>>>]}

SelectConstraints == {">= 1", "< 2"}

\* The state of a dry run that found no cache and fetched rawTags, at the
\* point where it filters them.
ReadyToSelect(expr, rawTags) ==
    LET opts == [VersionConstraint |-> expr, TagLatest |-> FALSE, DryRun |-> TRUE,
                 KeepBuildDirs |-> FALSE, BuildDir |-> defaultBuildDirectory,
                 TargetRepo |-> TargetRepo]
        s1 == ParseConstraintStep(StartOfRun(opts, rawTags))
        s2 == NewClientStep(s1, "ok", FALSE)
        s3 == LoginStep(s2, "ok")
        s4 == LoadCacheStep(s3, MissingFile)
    IN FetchStep(s4, "ok", FALSE)

InitSelect ==
    /\ \E expr \in SelectConstraints, tag \in CandidateTags, ctx \in TagContexts :
           run = ReadyToSelect(expr, ctx.pre \o <<tag>> \o ctx.post)
    /\ twin = NoTwin
    /\ cancelled = FALSE

SpecSelect == InitSelect /\ [][Select]_vars

\* ------------------------------- from the constraint to the selection

\* A dry run starts with a constraint, well-formed or not, and a registry
\* that lists one tag of any kind among tags that are versions.
InitTotal ==
    /\ \E expr \in SelectConstraints \cup {"one"}, tag \in CandidateTags, ctx \in TagContexts :
           run = StartOfRun([VersionConstraint |-> expr, TagLatest |-> FALSE,
                             DryRun |-> TRUE, KeepBuildDirs |-> FALSE,
                             BuildDir |-> defaultBuildDirectory, TargetRepo |-> TargetRepo],
                            ctx.pre \o <<tag>> \o ctx.post)
    /\ twin = NoTwin
    /\ cancelled = FALSE

NextTotal == ParseConstraint \/ NewClient \/ DoLogin \/ LoadCache \/ Fetch \/ Select

SpecTotal == InitTotal /\ [][NextTotal]_vars

\* ---------------------------- a broken cache file and a missing one, side by side

\* What is wrong with a cache file, if anything.
FileKind(file) ==
    IF file.state # "json" THEN file.state
    ELSE IF file.doc.image = <<"\"", "\"">> THEN "no image"
    ELSE IF file.doc.tags = <<>> THEN "no tags"
    ELSE "valid"

BrokenKinds == {"empty", "garbage", "no image", "no tags"}

MissTagLists == {<<<<"2">>>>, <<<<"2">>, <<"1", ".", "0">>>>}

\* run is given a broken cache file and twin none at all; they have the same
\* options and the world answers both alike. run.found names what run found.
InitMiss ==
    /\ \E opts \in Options, upstream \in MissTagLists :
           /\ twin = StartOfRun(opts, upstream)
           /\ run = [f \in DOMAIN twin \cup {"found"} |->
                        IF f = "found" THEN "" ELSE twin[f]]
    /\ cancelled = FALSE

MissLogin ==
    /\ Together("login")
    /\ \E outcome \in LoginOutcomes :
           /\ run' = LoginStep(run, outcome)
           /\ twin' = LoginStep(twin, outcome)
    /\ UNCHANGED cancelled

MissLoadCache ==
    /\ Together("loadCache")
    /\ \E file \in CacheFiles(run.upstream) :
           /\ FileKind(file) \in BrokenKinds
           /\ run' = [LoadCacheStep(run, file) EXCEPT !.found = FileKind(file)]
           /\ twin' = LoadCacheStep(twin, MissingFile)
    /\ UNCHANGED cancelled

MissPush ==
    /\ Together("push")
    /\ \E resps \in [1..Len(run.tags) -> PushResponses] :
           /\ \A i \in 1..Len(run.tags) : MayCancel(resps[i].canceled)
           /\ run' = PushStep(run, resps)
           /\ twin' = PushStep(twin, resps)
    /\ UNCHANGED cancelled

NextMiss ==
    \/ PairCancel
    \/ PairParseConstraint
    \/ PairNewClient
    \/ MissLogin
    \/ MissLoadCache
    \/ PairFetch
    \/ PairSelect
    \/ PairLoop
    \/ PairPrepare
    \/ PairBuild
    \/ MissPush
    \/ PairClean
    \/ PairDeferred

SpecMiss == InitMiss /\ [][NextMiss]_vars

\* ------------------------------------------------------ the 12.x scenario

ScenarioConstraint == ">= 12.0, < 13.0"

ScenarioTags ==
    <<<<"1", "0", ".", "1">>, <<"1", "2", ".", "0">>, <<"1", "2", ".", "5">>,
      <<"1", "3", ".", "0">>, Latest>>

\* A run with the scenario's constraint against a registry (and possibly a
\* cache file) that holds the scenario's tags; every other option is free.
InitScenario ==
    /\ \E opts \in [VersionConstraint : {ScenarioConstraint}, TagLatest : BOOLEAN,
                    DryRun : BOOLEAN, KeepBuildDirs : BOOLEAN, BuildDir : BuildDirs,
                    TargetRepo : {TargetRepo}] :
           run = StartOfMain(opts, ScenarioTags)
    /\ twin = NoTwin
    /\ cancelled = FALSE

SpecScenario == InitScenario /\ [][Next]_vars

\* ------------------------------------------- runs with a build root given

\* The build roots a run is given with -b: the default and another one.
ConfiguredBuildDirs == {defaultBuildDirectory, "out"}

InitRoots ==
    /\ \E opts \in [VersionConstraint : {">= 1"}, TagLatest : {FALSE},
                    DryRun : BOOLEAN, KeepBuildDirs : BOOLEAN,
                    BuildDir : ConfiguredBuildDirs, TargetRepo : {TargetRepo}],
          upstream \in SeqsUpTo(PipelineTags, MaxTags) :
           run = StartOfMain(opts, upstream)
    /\ twin = NoTwin
    /\ cancelled = FALSE

SpecRoots == InitRoots /\ [][Next]_vars

\* ----------------------------------- runs whose builds answer any identifiers

\* What the daemon may answer to a Build that succeeds: one of two images on
\* one of two bases, or an image whose history knows no entry but the image
\* itself. Identifiers come from the content of what was built, so two
\* versions may get the same ones.
GenerationResponses ==
    UNION {{[fail |-> "none", canceled |-> FALSE, lines |-> <<"log">>,
             images |-> <<DaemonID(i)>>, history |-> h] :
               h \in {<<DaemonID(i), DaemonID("p"), Missing>>,
                      <<DaemonID(i), DaemonID("q"), Missing>>,
                      <<DaemonID(i), Missing>>}} :
           i \in ImageHex}

InitGenerations ==
    /\ \E opts \in [VersionConstraint : {">= 1"}, TagLatest : {FALSE},
                    DryRun : BOOLEAN, KeepBuildDirs : {TRUE},
                    BuildDir : BuildDirs, TargetRepo : {TargetRepo}],
          upstream \in SeqsUpTo(PipelineTags, MaxTags) :
           run = StartOfMain(opts, upstream)
    /\ twin = NoTwin
    /\ cancelled = FALSE

BuildGeneration ==
    /\ run.pc = "build"
    /\ \E resp \in GenerationResponses : run' = BuildStep(run, resp)
    /\ UNCHANGED <<twin, cancelled>>

NextGenerations ==
    \/ ParseTemplates
    \/ ParseConstraint
    \/ NewClient
    \/ DoLogin
    \/ LoadCache
    \/ Fetch
    \/ Select
    \/ Loop
    \/ Prepare
    \/ BuildGeneration
    \/ DoPush
    \/ Clean
    \/ Deferred

SpecGenerations == InitGenerations /\ [][NextGenerations]_vars

\* ------------------------------------------------ runs without a constraint

\* The raw tag lists a run without -v is given.
UnconstrainedTagLists == SeqsUpTo({<<"2">>, <<"0", ".", "9">>, Latest}, 2)

\* A run whose version constraint is the flag's default, the empty expression.
InitUnconstrained ==
    /\ \E opts \in [VersionConstraint : {""}, TagLatest : BOOLEAN,
                    DryRun : BOOLEAN, KeepBuildDirs : BOOLEAN, BuildDir : BuildDirs,
                    TargetRepo : {TargetRepo}],
          upstream \in UnconstrainedTagLists :
           run = StartOfMain(opts, upstream)
    /\ twin = NoTwin
    /\ cancelled = FALSE

SpecUnconstrained == InitUnconstrained /\ [][Next]_vars

\* --------------------------------------- the tag cache, saved and loaded

\* The characters of the tags a cache is saved with: a digit, and the two
\* characters JSON escapes.
CacheChars == {"1", "\"", "\\"}

CacheTags == SeqsUpTo(CacheChars, 2) \ {<<>>}

ClockReadings == {[wall |-> w, mono |-> FALSE] : w \in {0, 1, 2}}

\* The caches a run may hold at shutdown: loaded from a file (no monotonic
\* reading) or made from the registry's answer at time.Now().
CachesToSave ==
    [Image : {defaultSourceRepo}, Modified : ClockReadings \cup {[wall |-> 1, mono |-> TRUE]},
     Tags : SeqsUpTo(CacheTags, 2)]

\* One run saves its cache at shutdown over whatever file there was, and the
\* next run loads the file.
InitCache ==
    /\ \E c \in CachesToSave,
          old \in {MissingFile,
                   File("json", EncodeCache([Image |-> defaultSourceRepo,
                                            Modified |-> [wall |-> 2, mono |-> FALSE],
                                            Tags |-> <<<<"1">>>>]),
                        [wall |-> 2, mono |-> FALSE])} :
           run = [pc |-> "save", saved |-> c, file |-> old, saveErr |-> Nil,
                  loaded |-> NoCache, err |-> Nil]
    /\ twin = NoTwin
    /\ cancelled = FALSE

SaveCache ==
    /\ run.pc = "save"
    /\ \E outcome \in SaveTagCacheOutcomes, clock \in ClockReadings :
           LET r == saveTagCache(run.file, run.saved, outcome, clock)
           IN run' = [run EXCEPT !.pc = "load", !.file = r.file, !.saveErr = r.err]
    /\ UNCHANGED <<twin, cancelled>>

LoadSavedCache ==
    /\ run.pc = "load"
    /\ LET r == loadTagCache(run.file)
       IN run' = [run EXCEPT !.pc = "loaded", !.loaded = r.cache, !.err = r.err]
    /\ UNCHANGED <<twin, cancelled>>

NextCache == SaveCache \/ LoadSavedCache

SpecCache == InitCache /\ [][NextCache]_vars

\* ------------------------------------- the image client, one call at a time

\* What the daemon may answer to a Build: the call fails before or at the
\* transport, or it returns an output stream of log and error lines, after
\* which the image list and the image history are asked for.
BuildAnswers ==
    {[fail |-> f, canceled |-> FALSE, lines |-> <<>>, images |-> <<>>, history |-> <<>>] :
        f \in {"tar", "transport"}}
    \cup [fail : {"none", "list", "history"}, canceled : {FALSE},
          lines : SeqsUpTo({"log", "error"}, MaxTags),
          images : {<<>>, <<DaemonID("a")>>, <<DaemonID("b"), DaemonID("a")>>},
          history : SeqsUpTo({Missing, DaemonID("p"), <<"q">>}, MaxTags)]

ClientTagLists ==
    {<<>>, <<ImageTag(TargetRepo, <<"2">>)>>,
     <<ImageTag(TargetRepo, <<"2">>), ImageTag(TargetRepo, Latest)>>}

ClientIDLists == SeqsUpTo({<<"a">>, <<"p">>}, 2)

\* One call of the image client is about to be made: its arguments and what
\* the daemon will answer.
InitClient ==
    /\ \/ \E tags \in ClientTagLists, resp \in BuildAnswers :
              run = [pc |-> "call", op |-> "Build", args |-> tags, answer |-> resp,
                     result |-> <<>>]
       \/ \E images \in ClientTagLists :
              \E resps \in [1..Len(images) -> PushResponses] :
                  run = [pc |-> "call", op |-> "Push", args |-> images, answer |-> resps,
                         result |-> <<>>]
       \/ \E ids \in ClientIDLists :
              \E resps \in [1..Len(ids) -> RemoveResponses] :
                  run = [pc |-> "call", op |-> "Remove", args |-> ids, answer |-> resps,
                         result |-> <<>>]
    /\ twin = NoTwin
    /\ cancelled = FALSE

CallBuild ==
    /\ run.pc = "call" /\ run.op = "Build"
    /\ run' = [run EXCEPT !.pc = "returned", !.result = Build(run.answer, run.args)]
    /\ UNCHANGED <<twin, cancelled>>

CallPush ==
    /\ run.pc = "call" /\ run.op = "Push"
    /\ run' = [run EXCEPT !.pc = "returned", !.result = Push(run.args, run.answer)]
    /\ UNCHANGED <<twin, cancelled>>

CallRemove ==
    /\ run.pc = "call" /\ run.op = "Remove"
    /\ run' = [run EXCEPT !.pc = "returned", !.result = Remove(run.args, run.answer)]
    /\ UNCHANGED <<twin, cancelled>>

NextClient == CallBuild \/ CallPush \/ CallRemove

SpecClient == InitClient /\ [][NextClient]_vars

\* ------------------------------------------- the registry, page by page

\* What one page request may come to. A page that is answered and decodes
\* gives its tag names and its next reference: the number of a later page,
\* or 0 for the empty string.
PageOutcomes == {"ok", "create", "send", "decode"}

PageNames == {<<>>, <<Latest>>, <<<<"2">>, Latest>>}

\* The registries the fetch is run against: up to MaxTags pages, whose next
\* references point forward.
Registries ==
    UNION {{pages \in [1..n -> [outcome : PageOutcomes, names : PageNames, next : 0..n]] :
               \A i \in 1..n :
                   /\ pages[i].next = 0 \/ pages[i].next > i
                   /\ pages[i].outcome # "ok" =>
                          pages[i].names = <<>> /\ pages[i].next = 0} :
           n \in 1..MaxTags}

\* getTags: one page request. The status of the answer is not looked at; what
\* decodes is what counts.
getTags(page) ==
    LET failed(msg) == [tags |-> <<>>, next |-> 0, err |-> NewError(msg, FALSE)]
    IN IF page.outcome = "create" THEN failed("create request")
       ELSE IF page.outcome = "send" THEN failed("send request")
       ELSE IF page.outcome = "decode" THEN failed("decode response")
       ELSE [tags |-> page.names, next |-> page.next, err |-> Nil]

getAllTagsFromFirstPageOnly(pages, next, tags, requested) ==
    LET r == getTags(pages[next])
    IN [tags |-> r.tags, requested |-> <<next>>,
        err |-> IF IsNil(r.err) THEN Nil ELSE Wrap("get tags", r.err)]

\* The loop of getAllTags: while the next reference is not empty, request
\* the page it names and append the page's tags; a failed request ends the
\* call with no tags. requested lists the pages asked for, in order.
RECURSIVE getAllTagsFrom(_, _, _, _)
getAllTagsFrom(pages, next, tags, requested) ==
    IF next = 0 THEN [tags |-> tags, err |-> Nil, requested |-> requested]
    ELSE LET r == getTags(pages[next])
         IN IF ~IsNil(r.err)
            THEN [tags |-> <<>>, err |-> Wrap("get tags", r.err),
                  requested |-> Append(requested, next)]
            ELSE getAllTagsFrom(pages, r.next, tags \o r.tags, Append(requested, next))

\* getAllTags: the first page is the one the repository's URL names.
getAllTags(pages) == getAllTagsFrom(pages, 1, <<>>, <<>>)

InitFetch ==
    /\ \E pages \in Registries :
           run = [pc |-> "call", op |-> "getAllTags", answer |-> pages, result |-> <<>>]
    /\ twin = NoTwin
    /\ cancelled = FALSE

CallGetAllTags ==
    /\ run.pc = "call" /\ run.op = "getAllTags"
    /\ run' = [run EXCEPT !.pc = "returned", !.result = getAllTags(run.answer)]
    /\ UNCHANGED <<twin, cancelled>>

SpecFetch == InitFetch /\ [][CallGetAllTags]_vars

\* ------------------------------- the variant with a list of versions (-v)

\* versionsList.Has: an empty list has every version; otherwise a version is
\* had when one of the list has its major number.
Has(r, version) ==
    \/ Len(r) = 0
    \/ \E i \in 1..Len(r) : r[i].major = version.major

\* parseVersions: every requested text is parsed; one that does not parse
\* ends the process (log.Fatalf).
parseVersions(versions) ==
    [fatal |-> \E i \in 1..Len(versions) : NewVersion(versions[i]).err,
     list |-> [i \in 1..Len(versions) |-> NewVersion(versions[i])]]

\* The values -v is given, none included.
RequestedLists ==
    {<<>>, <<<<"1", "2", ".", "3">>>>, <<<<"1", "3">>, <<"1", "2", ".", "3">>>>, <<<<"x">>>>}

\* The versions the registry may list.
RemoteVersions ==
    {NewVersion(t) : t \in {<<"1", "2", ".", "3">>, <<"1", "2", ".", "4">>, <<"1", "3", ".", "0">>}}

\* The step of one version that the world fails, "none" for none.
FailingSteps == {"none", "createVersionDirectory", "Build", "Tag", "Push", "Remove"}

DockerError == NewError("docker", FALSE)

\* cleanupBuildDirs, deferred in realMain: every directory of the list is
\* removed when the function returns.
cleanupBuildDirs(s) ==
    [s EXCEPT !.calls = @ \o [i \in 1..Len(s.pathsToCleanup) |->
                                  Call("RemoveAll", 0, s.pathsToCleanup[i], Nil, <<>>)]]

\* buildImage: Build, Tag (with the latest tag for the last image), Push
\* unless the run is a dry run, Remove; the first failure is returned
\* wrapped and ends the function. The result is the calls made, the images
\* on the daemon afterwards and the error returned.
buildImage(s, conf, fails) ==
    LET idx == conf.idx
        image == ImageTag(TargetRepo, conf.Version.original)
        tags == IF conf.IsLastImage THEN <<image, ImageTag(TargetRepo, Latest)>> ELSE <<image>>
        buildDirectory == getTagBuildDir(defaultBuildDirectory, conf.Version.original)
        E(step) == IF fails = step THEN DockerError ELSE Nil
        build == Call("Build", idx, [dir |-> buildDirectory, tag |-> TargetRepo], E("Build"),
                      IF fails = "Build" THEN 0 ELSE idx)
        tag == Call("Tag", idx, [source |-> idx, targets |-> tags], E("Tag"), <<>>)
        push == Call("Push", idx, tags, E("Push"), <<>>)
        remove == Call("Remove", idx, idx, E("Remove"), <<>>)
        built == s.images \cup {idx}
    IN IF fails = "Build"
       THEN [calls |-> <<build>>, images |-> s.images, err |-> Wrap("build image", DockerError)]
       ELSE IF fails = "Tag"
       THEN [calls |-> <<build, tag>>, images |-> built, err |-> Wrap("tag image", DockerError)]
       ELSE IF ~s.DryRun /\ fails = "Push"
       THEN [calls |-> <<build, tag, push>>, images |-> built, err |-> Wrap("push image", DockerError)]
       ELSE LET upto == IF s.DryRun THEN <<build, tag>> ELSE <<build, tag, push>>
            IN IF fails = "Remove"
               THEN [calls |-> Append(upto, remove), images |-> built,
                     err |-> Wrap("remove image", DockerError)]
               ELSE [calls |-> Append(upto, remove), images |-> s.images, err |-> Nil]

\* One turn of realMain's loop over the remote versions, and its return.
LoopVersionsStep(s, fails, isCancelled) ==
    IF s.idx >= Len(s.versions)
    THEN cleanupBuildDirs([s EXCEPT !.pc = "returned"])
    ELSE IF isCancelled
    THEN cleanupBuildDirs([s EXCEPT !.pc = "failed", !.err = NewError("context canceled", TRUE)])
    ELSE LET idx == s.idx + 1
             version == s.versions[idx]
             conf == [idx |-> idx, Version |-> version, IsLastImage |-> idx = Len(s.versions)]
             buildDirectory == getTagBuildDir(s.BuildDir, version.original)
         IN IF ~Has(s.requestedVersions, version)
            THEN [s EXCEPT !.idx = idx]
            ELSE IF fails = "createVersionDirectory"
            THEN cleanupBuildDirs(
                     [s EXCEPT !.idx = idx, !.processed = Append(@, version), !.pc = "failed",
                               !.calls = Append(@, Call("createVersionDirectory", idx, buildDirectory,
                                                        NewError("create build directory", FALSE), <<>>)),
                               !.err = Wrap("create version directory",
                                            NewError("create build directory", FALSE))])
            ELSE LET r == buildImage(s, conf, fails)
                     made == <<Call("createVersionDirectory", idx, buildDirectory, Nil, <<>>)>> \o r.calls
                 IN [s EXCEPT !.idx = idx, !.processed = Append(@, version),
                              !.pathsToCleanup = IF s.KeepBuildDirs THEN @ ELSE Append(@, buildDirectory),
                              !.images = r.images,
                              !.calls = IF IsNil(r.err) THEN @ \o made
                                        ELSE @ \o made \o <<Call("Errorf", idx, version.original, r.err, <<>>)>>]

InitList ==
    /\ \E requested \in RequestedLists, versions \in SeqsUpTo(RemoteVersions, MaxTags),
          dryRun \in BOOLEAN, keep \in BOOLEAN :
           run = [pc |-> "parseVersions", op |-> "list", requested |-> requested,
                  versions |-> Sort(versions), DryRun |-> dryRun, KeepBuildDirs |-> keep,
                  BuildDir |-> defaultBuildDirectory,
                  requestedVersions |-> <<>>, idx |-> 0, processed |-> <<>>,
                  pathsToCleanup |-> <<>>, images |-> {}, calls |-> <<>>, err |-> Nil]
    /\ twin = NoTwin
    /\ cancelled = FALSE

\* The requested versions are parsed once the remote versions are loaded.
ParseRequested ==
    /\ run.pc = "parseVersions"
    /\ LET r == parseVersions(run.requested)
       IN run' = IF r.fatal THEN [run EXCEPT !.pc = "exited"]
                 ELSE [run EXCEPT !.requestedVersions = r.list, !.pc = "loop"]
    /\ UNCHANGED <<twin, cancelled>>

\* One turn of the loop over the remote versions: a version the list does not
\* have is skipped, any other gets its directory and is built and pushed.
LoopVersions ==
    /\ run.pc = "loop"
    /\ \E fails \in FailingSteps : run' = LoopVersionsStep(run, fails, cancelled)
    /\ UNCHANGED <<twin, cancelled>>

\* The interrupt arrives while the run is on its way.
CancelList ==
    /\ ~cancelled
    /\ run.pc \in {"parseVersions", "loop"}
    /\ cancelled' = TRUE
    /\ UNCHANGED <<run, twin>>

NextList == ParseRequested \/ LoopVersions \/ CancelList

SpecList == InitList /\ [][NextList]_vars

\* ------------------------------------- prepareBuildDirectory, task by task

\* What os.MkdirAll, os.Create and Template.Execute may come to.
StepOutcomes == {"ok", "error"}

\* The group's error: the first one a task returned (errgroup keeps it once).
FirstError(egErr, err) == IF IsNil(egErr) THEN err ELSE egErr

WaitReturnsAtFirstError(s) ==
    \/ \A t \in DOMAIN s.tasks : s.tasks[t] = "done"
    \/ ~IsNil(s.egErr)

\* eg.Wait returns when every function given to eg.Go has returned.
WaitReturns(s) == \A t \in DOMAIN s.tasks : s.tasks[t] = "done"

\* prepareBuildDirectory is called for a version with one to MaxTags
\* templates; no task runs and no output file exists yet.
InitPrepare ==
    /\ \E n \in 1..MaxTags :
           run = [pc |-> "mkdir", op |-> "prepareBuildDirectory",
                  tasks |-> [t \in 1..n |-> "idle"],
                  files |-> [t \in 1..n |-> "none"],
                  spawned |-> 0, egErr |-> Nil, failedTasks |-> {}, result |-> Nil]
    /\ twin = NoTwin
    /\ cancelled = FALSE

\* The version's directory is created; a failure is returned at once.
MkdirAll ==
    /\ run.pc = "mkdir"
    /\ \E outcome \in StepOutcomes :
           run' = IF outcome = "ok" THEN [run EXCEPT !.pc = "spawn"]
                  ELSE [run EXCEPT !.pc = "returned",
                                   !.result = NewError("create build directory", FALSE)]
    /\ UNCHANGED <<twin, cancelled>>

\* The loop over the templates hands the next one to eg.Go, or, after the
\* last one, reaches eg.Wait.
Spawn ==
    /\ run.pc = "spawn"
    /\ run' = IF run.spawned < Len(run.tasks)
              THEN [run EXCEPT !.spawned = @ + 1, !.tasks[run.spawned + 1] = "running"]
              ELSE [run EXCEPT !.pc = "wait"]
    /\ UNCHANGED <<twin, cancelled>>

\* A task creates its output file, named after its template.
CreateFile ==
    /\ \E t \in DOMAIN run.tasks, outcome \in StepOutcomes :
           /\ run.tasks[t] = "running"
           /\ run' = IF outcome = "ok"
                     THEN [run EXCEPT !.tasks[t] = "created", !.files[t] = "empty"]
                     ELSE [run EXCEPT !.tasks[t] = "done",
                                      !.failedTasks = @ \cup {t},
                                      !.egErr = FirstError(@, NewError("create template", FALSE))]
    /\ UNCHANGED <<twin, cancelled>>

\* A task executes its template into its output file and returns.
ExecuteTemplate ==
    /\ \E t \in DOMAIN run.tasks, outcome \in StepOutcomes :
           /\ run.tasks[t] = "created"
           /\ run' = IF outcome = "ok"
                     THEN [run EXCEPT !.tasks[t] = "done", !.files[t] = "rendered"]
                     ELSE [run EXCEPT !.tasks[t] = "done", !.files[t] = "partial",
                                      !.failedTasks = @ \cup {t},
                                      !.egErr = FirstError(@, NewError("execute template", FALSE))]
    /\ UNCHANGED <<twin, cancelled>>

\* eg.Wait returns the group's error, which prepareBuildDirectory returns.
Wait ==
    /\ run.pc = "wait"
    /\ WaitReturns(run)
    /\ run' = [run EXCEPT !.pc = "returned", !.result = run.egErr]
    /\ UNCHANGED <<twin, cancelled>>

NextPrepare == MkdirAll \/ Spawn \/ CreateFile \/ ExecuteTemplate \/ Wait

SpecPrepare == InitPrepare /\ [][NextPrepare]_vars

\* --------------------------------------------- sorting more than a few tags

\* data with its elements at i and j exchanged.
Swapped(data, i, j) == [data EXCEPT ![i] = data[j], ![j] = data[i]]

\* What sort.Sort may leave in the slice. Up to 12 elements it sorts by
\* insertion, which never moves an element past one it is not less than.
\* Longer slices are sorted by pattern-defeating quicksort, whose partition
\* exchanges elements over a distance: the result is ascending, and the order
\* of elements that compare equal is not determined by their order before
\* (sort.Sort, unlike sort.Stable, does not promise it). The outcomes are the
\* arrangement insertion gives and those with two equal neighbours exchanged.
SortOutcomes(data) ==
    LET sorted == InsertionSortFrom(data, 2)
    IN IF Len(data) <= 12 THEN {sorted}
       ELSE {sorted} \cup {Swapped(sorted, i, i + 1) :
                              i \in {k \in 1..(Len(data) - 1) :
                                        Compare(sorted[k], sorted[k + 1]) = 0}}

\* Tags of distinct versions, newest first, as the registry lists them.
DistinctTags ==
    <<<<"1", "1">>, <<"1", "0">>, <<"9">>, <<"8">>, <<"7">>, <<"6">>, <<"5">>, <<"4">>,
      <<"3">>, <<"2">>, <<"1">>>>

\* s with x put after its first p elements.
InsertedAt(s, p, x) == SubSeq(s, 1, p) \o <<x>> \o SubSeq(s, p + 1, Len(s))

\* The raw tag lists the sort is run on: the last k distinct tags, and the
\* tags "12" and "12.0", which are equal as versions, put anywhere among them
\* in either order.
SortTagLists ==
    UNION {UNION {{InsertedAt(InsertedAt(SubSeq(DistinctTags, Len(DistinctTags) - k + 1,
                                                Len(DistinctTags)), p, pair[1]),
                              q + 1, pair[2]) :
                      pair \in {<<<<"1", "2">>, <<"1", "2", ".", "0">>>>,
                                <<<<"1", "2", ".", "0">>, <<"1", "2">>>>}} :
                  p \in 0..k, q \in 0..k} :
           k \in 0..Len(DistinctTags)}

InitSort ==
    /\ \E rawTags \in SortTagLists :
           run = [pc |-> "select", op |-> "sort", rawTags |-> rawTags,
                  selected |-> <<>>, versions |-> <<>>]
    /\ twin = NoTwin
    /\ cancelled = FALSE

\* The tags are filtered with no constraint given and the selected versions
\* are sorted.
SortSelected ==
    /\ run.pc = "select" /\ run.op = "sort"
    /\ LET selected == FilterTags(run.rawTags, NewConstraint(""))
       IN \E versions \in SortOutcomes(selected) :
              run' = [run EXCEPT !.pc = "sorted", !.selected = selected,
                                 !.versions = versions]
    /\ UNCHANGED <<twin, cancelled>>

SpecSort == InitSort /\ [][SortSelected]_vars

\* ------------------------------------------------- reading the call log

Range(f) == {f[i] : i \in DOMAIN f}

\* The positions in the log of the calls of op made in iteration i.
Pos(s, op, i) == {k \in 1..Len(s.calls) : s.calls[k].op = op /\ s.calls[k].idx = i}

PosOf(s, op) == {k \in 1..Len(s.calls) : s.calls[k].op = op}

PipelineOps == {"prepareBuildDirectory", "Build", "Push", "Remove"}

\* Iteration i ran to its end.
Processed(s, i) == Pos(s, "Done", i) # {}

\* The identifiers the Build of iteration i returned.
BuiltIDs(s, i) ==
    LET c == s.calls[CHOOSE k \in Pos(s, "Build", i) : TRUE]
    IN <<c.out.imageID, c.out.baseID>>

LatestTag == ImageTag(TargetRepo, Latest)

\* ------------------------------------------------------------------ claims

\* C1 (as amended): once iteration N >= 2 has been processed, Remove has been
\* called exactly once in it, with exactly the image ID and base ID that the
\* build of version N-1 returned; the first iteration removes nothing, and no
\* Remove call is made with anything else.
C1_RemovesPreviousGeneration ==
    /\ \A k \in PosOf(run, "Remove") :
           /\ run.calls[k].idx >= 2
           /\ run.calls[k].args = BuiltIDs(run, run.calls[k].idx - 1)
    /\ \A N \in 1..Len(run.versions) :
           Processed(run, N) =>
               Cardinality(Pos(run, "Remove", N)) = (IF N >= 2 THEN 1 ELSE 0)

\* C1 witness: three versions processed, the first two generations differing.
C1_Witness ==
    /\ Processed(run, 3)
    /\ BuiltIDs(run, 1) # BuiltIDs(run, 2)
    /\ BuiltIDs(run, 2) # BuiltIDs(run, 3)

\* C1 as stated: after the N-th version (the third or a later one) has been
\* processed, Remove has been called in that iteration with the identifiers of
\* the build two versions back, and with neither those of the previous
\* version nor those of the version just built.
C1_RemovesGenerationTwoBack ==
    \A N \in 3..Len(run.versions) :
        Processed(run, N) =>
            /\ \E k \in Pos(run, "Remove", N) : run.calls[k].args = BuiltIDs(run, N - 2)
            /\ \A k \in Pos(run, "Remove", N) :
                   /\ run.calls[k].args # BuiltIDs(run, N - 1)
                   /\ run.calls[k].args # BuiltIDs(run, N)

\* A successful Remove call made after position k that was given both ids.
RemovedAfter(s, k, ids) ==
    \E j \in PosOf(s, "Remove") :
        /\ j > k
        /\ IsNil(s.calls[j].err)
        /\ \A n \in 1..Len(ids) : ids[n] \in Range(s.calls[j].args)

\* The iterations whose image was built and has not been passed to a
\* successful Remove since.
Retained(s) ==
    {i \in 1..Len(s.versions) :
        \E k \in Pos(s, "Build", i) :
            /\ IsNil(s.calls[k].err)
            /\ ~RemovedAfter(s, k, <<s.calls[k].out.imageID, s.calls[k].out.baseID>>)}

\* C2: in every state of a run at most two image generations have been built
\* and not yet been passed to a successful Remove.
C2_AtMostTwoRetained == Cardinality(Retained(run)) <= 2

\* C2 witness: two generations are retained while an earlier one has been
\* removed.
C2_Witness ==
    /\ Cardinality(Retained(run)) = 2
    /\ \E i \in 1..Len(run.versions) : Pos(run, "Build", i) # {} /\ i \notin Retained(run)

\* C3: the tag list given to Build and to Push starts with the version's own
\* tag, <target-repo>:<original text>, and holds <target-repo>:latest exactly
\* when latest-tagging is on and the version is the last of the sequence.
C3_LatestOnlyOnLast ==
    \A k \in PosOf(run, "Build") \cup PosOf(run, "Push") :
        LET c == run.calls[k]
            tags == IF c.op = "Build" THEN c.args.tags ELSE c.args
        IN /\ Len(tags) >= 1
           /\ tags[1] = ImageTag(TargetRepo, run.versions[c.idx].original)
           /\ \A n \in 2..Len(tags) : tags[n] = LatestTag
           /\ (LatestTag \in Range(tags)) <=>
                  (run.opts.TagLatest /\ c.idx = Len(run.versions))

\* C3 witness: with latest-tagging on, an earlier version was pushed without
\* and the last version with the latest tag.
C3_Witness ==
    /\ run.opts.TagLatest
    /\ Len(run.versions) >= 2
    /\ \E k \in PosOf(run, "Push") :
           run.calls[k].idx = 1 /\ LatestTag \notin Range(run.calls[k].args)
    /\ \E k \in PosOf(run, "Push") :
           run.calls[k].idx = Len(run.versions) /\ LatestTag \in Range(run.calls[k].args)

\* A call of the pipeline that failed: it returned an error, or it is a
\* Build that returned an empty identifier.
FailedAt(s, k) ==
    /\ s.calls[k].op \in PipelineOps
    /\ \/ ~IsNil(s.calls[k].err)
       \/ /\ s.calls[k].op = "Build"
          /\ (s.calls[k].out.imageID = EmptyID \/ s.calls[k].out.baseID = EmptyID)

\* The message realMain wraps the error of a pipeline call with.
WrapMsg(op) ==
    CASE op = "prepareBuildDirectory" -> "create version directory"
      [] op = "Build" -> "build image"
      [] op = "Push" -> "push image"
      [] op = "Remove" -> "remove images"

\* C4: when prepare, Build, Push or Remove fails for a version, the run ends
\* with that error, wrapped, as its result, and no prepare, Build, Push or
\* Remove is performed after the failed call.
C4_FailureHaltsRun ==
    \A k \in 1..Len(run.calls) :
        FailedAt(run, k) =>
            /\ run.pc \in {"deferred", "exited"}
            /\ ~IsNil(run.err)
            /\ Head(run.err.chain) = WrapMsg(run.calls[k].op)
            /\ ~IsNil(run.calls[k].err) =>
                   run.err = Wrap(WrapMsg(run.calls[k].op), run.calls[k].err)
            /\ \A j \in (k + 1)..Len(run.calls) :
                   run.calls[j].op \notin PipelineOps \cup {"Done"}
            /\ run.pc = "exited" => run.exit = ExitStatus(run.err)

\* C4 witness: the run has exited after a call failed for a version that was
\* not the last one.
C4_Witness ==
    /\ run.pc = "exited"
    /\ \E k \in 1..Len(run.calls) :
           FailedAt(run, k) /\ run.calls[k].idx < Len(run.versions)

\* The error realMain returns for a cancelled context.
ContextCanceled == NewError("context canceled", TRUE)

\* The calls of the pipeline made so far.
PipelineCalls(s) == SelectSeq(s.calls, LAMBDA c : c.op \in PipelineOps)

\* C5: cancellation is checked at the start of every iteration. When the
\* signal has been raised before an iteration starts, the iteration does not
\* start: the run returns the cancellation error without any call; and once
\* the run has returned it, no prepare, Build, Push or Remove is performed
\* and the process exits with status 0.
C5_CancelStopsBeforeIteration ==
    [][/\ (run.pc = "loop" /\ cancelled /\ run.idx < Len(run.versions)) =>
              /\ run'.pc = "deferred"
              /\ run'.err = ContextCanceled
              /\ run'.calls = run.calls
       /\ (run.pc \in {"deferred", "exited"} /\ run.err = ContextCanceled) =>
              /\ PipelineCalls(run') = PipelineCalls(run)
              /\ run'.err = run.err
              /\ run'.pc = "exited"
              /\ run'.exit = 0]_vars

\* C5 witness: the run has exited on a cancellation observed after its first
\* iteration, with versions left unprocessed.
C5_Witness ==
    /\ run.pc = "exited"
    /\ run.err = ContextCanceled
    /\ run.exit = 0
    /\ Processed(run, 1)
    /\ run.idx < Len(run.versions)
    /\ Pos(run, "prepareBuildDirectory", 2) = {}

\* The number of successful prepare calls.
Prepared(s) ==
    Cardinality({k \in PosOf(s, "prepareBuildDirectory") : IsNil(s.calls[k].err)})

\* C6: in a dry run neither Push nor the registry login is ever called, while
\* Build is called for every version whose directory was prepared: one Build
\* per prepared version, the one about to be built excepted.
C6_DryRunNeverPushes ==
    run.opts.DryRun =>
        /\ PosOf(run, "Push") = {}
        /\ PosOf(run, "Login") = {}
        /\ Cardinality(PosOf(run, "Build")) =
               Prepared(run) - (IF run.pc = "build" THEN 1 ELSE 0)
        /\ \A i \in 1..Len(run.versions) :
               Processed(run, i) => Cardinality(Pos(run, "Build", i)) = 1

\* C6 witness: a dry run has exited after building and processing two
\* versions.
C6_Witness ==
    /\ run.opts.DryRun
    /\ run.pc = "exited"
    /\ Processed(run, 2)
    /\ Cardinality(PosOf(run, "Build")) >= 2

\* The build directories could not all be removed at shutdown.
CleanupFailed(s) ==
    \E k \in PosOf(s, "cleanupBuildDirs") : s.calls[k].out.failed

BuiltVersion(c) == NewVersion(c.args.tags[1].tag)

\* C9: versions are processed one after another in ascending order. The
\* Build calls of a run are for the versions of the sequence in turn, each
\* at most once, never for a lower version after a higher one; and the Build
\* of a version starts only after the previous version's Push (unless dry
\* run) and Remove (when there was something to remove) have returned
\* without error and that version was done.
C9_SequentialAscending ==
    /\ \A j, k \in PosOf(run, "Build") :
           j < k =>
               /\ run.calls[j].idx < run.calls[k].idx
               /\ ~LessThan(BuiltVersion(run.calls[k]), BuiltVersion(run.calls[j]))
    /\ \A k \in PosOf(run, "Build") :
           LET i == run.calls[k].idx
           IN /\ run.calls[k].args.tags[1].tag = run.versions[i].original
              /\ i >= 2 =>
                     /\ \E j \in Pos(run, "Build", i - 1) : j < k
                     /\ ~run.opts.DryRun =>
                            \E j \in Pos(run, "Push", i - 1) :
                                j < k /\ IsNil(run.calls[j].err)
                     /\ i >= 3 =>
                            \E j \in Pos(run, "Remove", i - 1) :
                                j < k /\ IsNil(run.calls[j].err)
                     /\ \E j \in Pos(run, "Done", i - 1) : j < k

\* C9 witness: the tags came in descending order and three versions were
\* built, the second higher than the first.
C9_Witness ==
    /\ Len(run.cache.Tags) >= 2
    /\ LessThan(NewVersion(run.cache.Tags[2]), NewVersion(run.cache.Tags[1]))
    /\ Pos(run, "Build", 3) # {}
    /\ \E j \in Pos(run, "Build", 1), k \in Pos(run, "Build", 2) :
           LessThan(BuiltVersion(run.calls[j]), BuiltVersion(run.calls[k]))

\* The Build and Remove calls made so far, with their arguments and results.
BuildRemoveCalls(s) == SelectSeq(s.calls, LAMBDA c : c.op \in {"Build", "Remove"})

\* C7: a dry run and a real run over the same versions, answered alike by the
\* daemon and with the real run's login and pushes succeeding, are at every
\* step at the same place of the same iteration, have made the same Build
\* and Remove calls with the same arguments, and hold the same window.
C7_DryRunSameBuildsAndRemoves ==
    /\ twin.opts.DryRun /\ ~run.opts.DryRun
    /\ run.pc = twin.pc
    /\ run.idx = twin.idx
    /\ BuildRemoveCalls(run) = BuildRemoveCalls(twin)
    /\ run.previousImage = twin.previousImage
    /\ run.previousBaseImage = twin.previousBaseImage
    /\ run.err = twin.err
    /\ run.exit = twin.exit

\* C7 witness: both runs have exited with three versions processed, the
\* real run having pushed and the dry run not.
C7_Witness ==
    /\ run.pc = "exited" /\ twin.pc = "exited"
    /\ Processed(run, 3) /\ Processed(twin, 3)
    /\ Cardinality(PosOf(run, "Push")) = 3
    /\ PosOf(twin, "Push") = {}
    /\ Cardinality(PosOf(twin, "Remove")) = 2

\* One to three dot-separated groups of digits, read character by character:
\* groups counts the group being read, digits whether it has a digit yet.
RECURSIVE DigitGroups(_, _, _)
DigitGroups(text, groups, digits) ==
    IF text = <<>> THEN digits
    ELSE IF Head(text) \in Digits THEN DigitGroups(Tail(text), groups, TRUE)
    ELSE IF Head(text) = "." THEN digits /\ groups < 3 /\ DigitGroups(Tail(text), groups + 1, FALSE)
    ELSE FALSE

WellFormed(tag) == DigitGroups(TrimSpace(tag), 1, FALSE)

\* The sequence without its i-th element.
Without(seq, i) == SubSeq(seq, 1, i - 1) \o SubSeq(seq, i + 1, Len(seq))

\* C10: a raw tag that, trimmed, is not one to three dot-separated groups of
\* digits is absent from the selected versions, and its presence changes
\* nothing else: the selection succeeds and selects what it selects from the
\* list without that tag.
C10_MalformedTagsExcluded ==
    run.pc = "loop" =>
        \A i \in 1..Len(run.cache.Tags) :
            ~WellFormed(run.cache.Tags[i]) =>
                /\ \A n \in 1..Len(run.versions) :
                       run.versions[n].original # TrimSpace(run.cache.Tags[i])
                /\ IsNil(run.err)
                /\ run.versions =
                       SelectVersions(Without(run.cache.Tags, i), run.versionConstraint)

\* C10 witness: the selection has run on a list that holds a tag semver would
\* parse ("v1") but the pattern refuses, between two tags it selects.
C10_Witness ==
    /\ run.pc = "loop"
    /\ run.cache.Tags = <<<<"1", "1">>, <<"v", "1">>, <<"1">>>>
    /\ Len(run.versions) = 2

\* The places of the selected versions whose original text is text.
SelectedAs(s, text) == {n \in 1..Len(s.versions) : s.versions[n].original = text}

\* The places of the raw tags that, trimmed, read text, are well-formed, parse
\* as a version and satisfy the constraint.
EligibleAs(s, text) ==
    {i \in 1..Len(s.cache.Tags) :
        /\ TrimSpace(s.cache.Tags[i]) = text
        /\ WellFormed(s.cache.Tags[i])
        /\ ~NewVersion(text).err
        /\ Check(s.versionConstraint, NewVersion(text))}

Selected(s) == s.pc \in {"loop", "prepare", "build", "push", "clean"} \/ PosOf(s, "Done") # {}

\* C12: with constraint ">= 12.0, < 13.0" and the raw tags 10.1, 12.0, 12.5,
\* 13.0, latest the selection is 12.0, 12.5; there are never more than two
\* iterations and a run that ends without error has made exactly two; only
\* the second iteration's tags hold latest, and only when asked for; a dry run
\* never pushes and still removes in its second iteration.
C12_ScenarioTwelve ==
    /\ Selected(run) =>
           /\ Len(run.versions) = 2
           /\ run.versions[1].original = <<"1", "2", ".", "0">>
           /\ run.versions[2].original = <<"1", "2", ".", "5">>
    /\ \A k \in 1..Len(run.calls) : run.calls[k].idx \in 0..2
    /\ (run.pc = "exited" /\ IsNil(run.err)) =>
           /\ Cardinality(PosOf(run, "Build")) = 2
           /\ Cardinality(PosOf(run, "Done")) = 2
           /\ Processed(run, 1) /\ Processed(run, 2)
    /\ \A k \in PosOf(run, "Build") :
           (LatestTag \in Range(run.calls[k].args.tags))
               <=> (run.opts.TagLatest /\ run.calls[k].idx = 2)
    /\ run.opts.DryRun =>
           /\ PosOf(run, "Push") = {}
           /\ Processed(run, 2) => Pos(run, "Remove", 2) # {}

\* C12 witness: a dry run of the scenario with latest-tagging has ended
\* without error, and its second Build carried the latest tag.
C12_Witness ==
    /\ run.opts.VersionConstraint = ScenarioConstraint
    /\ run.opts.DryRun /\ run.opts.TagLatest
    /\ run.pc = "exited" /\ IsNil(run.err)
    /\ Processed(run, 2)
    /\ Pos(run, "Remove", 2) # {}
    /\ \E k \in Pos(run, "Build", 2) : LatestTag \in Range(run.calls[k].args.tags)

ReachedLoop(s) == "shutdown" \in Range(s.defers) \/ PosOf(s, "saveTagCache") # {}

\* C14: a run whose selection is empty makes no prepare, Build, Push or
\* Remove call (so nothing is tagged latest) and ends without error, with
\* exit status 0, whether or not the signal was raised.
C14_NoVersionsNoIterations ==
    (ReachedLoop(run) /\ Len(run.versions) = 0) =>
        /\ PipelineCalls(run) = <<>>
        /\ PosOf(run, "Done") = {}
        /\ run.pc \in {"loop", "deferred", "exited"}
        /\ IsNil(run.err)
        /\ run.pc = "exited" => run.exit = 0

\* C14 witness: the registry had a tag, the constraint refused it, the signal
\* was raised and the run has ended.
C14_Witness ==
    /\ run.pc = "exited"
    /\ ReachedLoop(run)
    /\ run.cache.Tags # <<>>
    /\ run.versions = <<>>
    /\ cancelled
    /\ run.exit = 0

\* C15: a cache with an image name and at least one tag that was saved
\* without error loads without error from the same file, with the same image
\* name and the same tags in the same order, and with a modified time that
\* is the saved one or the file's modification time, never an earlier one.
C15_SaveLoadRoundTrip ==
    (run.pc = "loaded" /\ IsNil(run.saveErr)
        /\ run.saved.Image # "" /\ Len(run.saved.Tags) > 0) =>
        /\ IsNil(run.err)
        /\ run.loaded.Image = run.saved.Image
        /\ run.loaded.Tags = run.saved.Tags
        /\ run.loaded.Modified.wall >= run.saved.Modified.wall
        /\ run.loaded.Modified.wall \in {run.saved.Modified.wall, run.file.modTime.wall}

\* C15 witness: a cache whose tags hold a quote and a backslash, taken at
\* time.Now(), was saved over an older file and loaded back, and the file's
\* modification time was the earlier one.
C15_Witness ==
    /\ run.pc = "loaded" /\ IsNil(run.saveErr) /\ IsNil(run.err)
    /\ run.saved.Tags = <<<<"\"", "1">>, <<"\\">>>>
    /\ run.saved.Modified = [wall |-> 1, mono |-> TRUE]
    /\ run.file.modTime.wall = 0
    /\ run.loaded.Tags = run.saved.Tags

\* The messages of the errors loadTagCache returns.
CacheErrors ==
    {"no tag cache found", "invalid tag cache", "open tag cache file",
     "stat tag cache file", "decode tag cache"}

\* C16: a run that finds a cache file of size zero, not decodable, or decoding
\* to an empty image name or an empty tag array is at every moment in the
\* state of the run that finds no file: loadTagCache yields no cache, the next
\* step is the registry fetch, and no error of the cache ever becomes the
\* run's error.
C16_BrokenCacheIsCacheMiss ==
    /\ [f \in DOMAIN twin |-> run[f]] = twin
    /\ run.found # "" =>
           /\ \A k \in PosOf(run, "loadTagCache") :
                  /\ run.calls[k].out = NoCache
                  /\ k < Len(run.calls) => run.calls[k + 1].op = "GetDockerHubRepoTags"
                  /\ k = Len(run.calls) => run.pc = "fetch"
           /\ \A i \in 1..Len(run.err.chain) : run.err.chain[i] \notin CacheErrors

\* C16 witness: the run found a cache file without tags, fetched the tags
\* from the registry and processed a version.
C16_Witness ==
    /\ run.found = "no tags"
    /\ PosOf(run, "GetDockerHubRepoTags") # {}
    /\ Processed(run, 1)
    /\ run.pc = "exited"

\* C17: a valid cache file is loaded and its tags are the run's raw tags; a
\* run that loaded a cache makes no registry request, and a run that loaded
\* none makes the registry request its next call.
C17_CachePreferredOverRegistry ==
    /\ run.pc = "loadCache" =>
           \A file \in CacheFiles(run.upstream) :
               FileKind(file) = "valid" =>
                   /\ LoadCacheStep(run, file).pc = "select"
                   /\ LoadCacheStep(run, file).cache.Tags = DecodeCache(file.doc).Tags
    /\ \A k \in PosOf(run, "loadTagCache") :
           IF run.calls[k].out # NoCache
           THEN /\ PosOf(run, "GetDockerHubRepoTags") = {}
                /\ run.cache = run.calls[k].out
                /\ run.pc # "fetch"
           ELSE /\ k < Len(run.calls) => run.calls[k + 1].op = "GetDockerHubRepoTags"
                /\ k = Len(run.calls) => run.pc = "fetch"
    /\ \A k \in PosOf(run, "GetDockerHubRepoTags") :
           k > 1 /\ run.calls[k - 1].op = "loadTagCache" /\ run.calls[k - 1].out = NoCache

\* C17 witness: a run loaded a cache of two tags, made no registry request
\* and has processed a version from the cache.
C17_Witness ==
    /\ \E k \in PosOf(run, "loadTagCache") : Len(run.calls[k].out.Tags) = 2
    /\ PosOf(run, "GetDockerHubRepoTags") = {}
    /\ Processed(run, 1)

\* The raw tag lists the run obtained: what a successful loadTagCache or a
\* successful registry request returned.
ObtainedTags(s) ==
    {s.calls[k].out.Tags : k \in {j \in PosOf(s, "loadTagCache") : s.calls[j].out # NoCache}}
    \cup {s.calls[k].out : k \in {j \in PosOf(s, "GetDockerHubRepoTags") : IsNil(s.calls[j].err)}}

\* C18: while the run has not ended the tag cache has not been saved; a run
\* that obtained its tag list and has ended, however it ended, saved the
\* cache exactly once, after its last prepare, Build, Push and Remove, and
\* what it saved is the raw tag list as obtained, not the selection.
C18_CacheSavedOnceAtShutdown ==
    /\ run.pc # "exited" => PosOf(run, "saveTagCache") = {}
    /\ (run.pc = "exited" /\ ObtainedTags(run) # {}) =>
           /\ Cardinality(PosOf(run, "saveTagCache")) = 1
           /\ \A k \in PosOf(run, "saveTagCache") :
                  /\ \A j \in 1..Len(run.calls) :
                         run.calls[j].op \in PipelineOps \cup {"Done"} => j < k
                  /\ {run.calls[k].args.Tags} = ObtainedTags(run)
    /\ (run.pc = "exited" /\ ObtainedTags(run) = {}) => PosOf(run, "saveTagCache") = {}

\* C18 witness: the registry answered 0.9 and 2, the constraint refused 0.9,
\* the build of 2 failed, and the cache was saved with both tags.
C18_Witness ==
    /\ run.pc = "exited"
    /\ ~IsNil(run.err) /\ Head(run.err.chain) = "build image"
    /\ Len(run.versions) = 1
    /\ \E k \in PosOf(run, "saveTagCache") :
           run.calls[k].args.Tags = <<<<"0", ".", "9">>, <<"2">>>>

\* The directories of the iterations whose prepareBuildDirectory succeeded, in
\* the order of the iterations.
PreparedDirs(s) ==
    LET ok == SelectSeq(s.calls,
                  LAMBDA c : c.op = "prepareBuildDirectory" /\ IsNil(c.err))
    IN [i \in 1..Len(ok) |-> ok[i].args]

\* C19: no build directory is removed while the run has not ended; a run that
\* reached its loop removes, once and at its end however it ended, the
\* directories of all prepared versions when keep-build-dirs is off, and none
\* when it is on.
C19_BuildDirsRemovedAtShutdown ==
    /\ run.pc # "exited" => PosOf(run, "cleanupBuildDirs") = {}
    /\ (run.pc = "exited" /\ ReachedLoop(run)) =>
           /\ Cardinality(PosOf(run, "cleanupBuildDirs")) = 1
           /\ \A k \in PosOf(run, "cleanupBuildDirs") :
                  /\ \A j \in 1..Len(run.calls) :
                         run.calls[j].op \in PipelineOps \cup {"Done"} => j < k
                  /\ run.calls[k].args =
                         IF run.opts.KeepBuildDirs THEN <<>> ELSE PreparedDirs(run)

\* C19 witness: with keep-build-dirs off the run was cancelled after its first
\* version, and the first version's directory was removed at the end.
C19_Witness ==
    /\ run.pc = "exited"
    /\ ~run.opts.KeepBuildDirs
    /\ run.err.canceled
    /\ Processed(run, 1)
    /\ \E k \in PosOf(run, "cleanupBuildDirs") : Len(run.calls[k].args) = 1

\* The calls that reach the container daemon.
DaemonOps == {"Ping", "Login", "Build", "Push", "Remove"}

DaemonCalls(s) == {k \in 1..Len(s.calls) : s.calls[k].op \in DaemonOps}

\* The run's error is a failure to render a template.
RenderFailed(s) ==
    s.err.chain = <<"create version directory", "execute template">>

\* The run's error is a malformed constraint or a template set that does not parse.
ParseFailed(s) ==
    ~IsNil(s.err) /\ Head(s.err.chain) \in {"parse templates", "parse version constraint"}

\* C20: a template set that does not parse and a malformed constraint
\* expression end the run with status 1 before any call to the daemon; a
\* template that fails to render ends the run with status 1 too, at the
\* prepare step of an iteration, when the daemon has already been pinged.
C20_ConfigurationErrorsAreFatal ==
    /\ ParseFailed(run) => (DaemonCalls(run) = {} /\ run.pc \in {"deferred", "exited"})
    /\ (NewConstraint(run.opts.VersionConstraint).err
            /\ run.pc \notin {"parseTemplates", "parseConstraint"}) => ParseFailed(run)
    /\ RenderFailed(run) =>
           /\ run.pc \in {"deferred", "exited"}
           /\ PosOf(run, "Ping") # {}
           /\ run.calls[Len(run.calls)].op \in {"prepareBuildDirectory", "saveTagCache",
                                                "cleanupBuildDirs", "Close", "Logout"}
    /\ ((ParseFailed(run) \/ RenderFailed(run)) /\ run.pc = "exited") => run.exit = 1

\* C20 witness: a real run built, pushed its first version, and then a
\* template failed to render for the second: the run ended with status 1.
C20_Witness ==
    /\ RenderFailed(run)
    /\ run.pc = "exited" /\ run.exit = 1
    /\ Pos(run, "Build", 1) # {} /\ Pos(run, "Push", 1) # {}
    /\ PosOf(run, "Login") # {}

\* C20 as stated: whenever a configuration error, a render failure included,
\* is the run's error, no call to the daemon has been made.
C20_ConfigurationErrorsBeforeDaemon ==
    (ParseFailed(run) \/ RenderFailed(run)) => DaemonCalls(run) = {}

\* A Build has returned / a Push has returned / a Remove has returned.
Returned(op) == run.pc = "returned" /\ run.op = op

\* C21: a Build with tags whose transport call succeeded and whose output
\* holds at least one error line fails and returns no identifier, whatever
\* the image list and the history would answer, and it has read every line
\* of the output, once, when it returns; so has a Build without error line.
C21_ErrorLineFailsBuild ==
    (Returned("Build") /\ run.args # <<>> /\ run.answer.fail \notin {"tar", "transport"}) =>
        /\ run.result.read = Len(run.answer.lines)
        /\ (\E i \in 1..Len(run.answer.lines) : run.answer.lines[i] = "error") =>
               /\ ~IsNil(run.result.err)
               /\ run.result.err.chain = <<"build image">>
               /\ run.result.imageID = EmptyID
               /\ run.result.baseID = EmptyID

\* C21 witness: the output was a log line, an error line and a log line, the
\* image exists with a known base, and the Build has failed.
C21_Witness ==
    /\ Returned("Build")
    /\ run.answer.fail = "none"
    /\ run.answer.lines = <<"log", "error", "log">>
    /\ run.answer.images = <<DaemonID("a")>>
    /\ run.answer.history = <<DaemonID("p"), Missing>>
    /\ ~IsNil(run.result.err)
    /\ run.result.read = 3

\* The positions of a Push's arguments whose ImagePush the daemon fails.
FailingPushes == {i \in 1..Len(run.args) : run.answer[i].fail}

\* C22: a Push fails whenever the response stream of one of the tags it
\* pushed holds a structured error line, although the push call of that tag
\* succeeded.
C22_ErrorLinePushFails ==
    Returned("Push") =>
        ((\E i \in 1..Len(run.args) :
              /\ run.answer[i].errorLine
              /\ \A j \in 1..i : ~run.answer[j].fail)
         => ~IsNil(run.result.err))

\* C23: a Push issues the pushes in argument order; with no failing push
\* every tag is pushed and the call succeeds, otherwise the tags up to and
\* including the first failing one are pushed, none after it, and the call
\* returns that push's error.
C23_PushStopsAtFirstFailure ==
    Returned("Push") =>
        IF FailingPushes = {}
        THEN IsNil(run.result.err) /\ run.result.pushed = run.args
        ELSE LET first == CHOOSE i \in FailingPushes : \A j \in FailingPushes : i <= j
             IN /\ run.result.err = NewError("push", run.answer[first].canceled)
                /\ run.result.pushed = SubSeq(run.args, 1, first)

\* C23 witness: the push of the version tag failed and latest was not pushed.
C23_Witness ==
    /\ Returned("Push")
    /\ run.args = <<ImageTag(TargetRepo, <<"2">>), ImageTag(TargetRepo, Latest)>>
    /\ run.answer[1].fail
    /\ ~run.answer[2].fail
    /\ ~IsNil(run.result.err)
    /\ run.result.pushed = <<ImageTag(TargetRepo, <<"2">>)>>

\* C24: a Remove whose identifiers the daemon either removes or reports as
\* no longer existing succeeds and has gone through every identifier.
C24_RemoveToleratesAlreadyRemoved ==
    (Returned("Remove") /\ \A i \in 1..Len(run.args) : run.answer[i] \in {"ok", "notfound"})
        => IsNil(run.result.err) /\ run.result.attempted = Len(run.args)

\* The pages of the registry reached from the first one by the next
\* references, in order, up to the first page that fails.
RECURSIVE Chain(_, _)
Chain(pages, i) ==
    IF i = 0 THEN <<>>
    ELSE IF pages[i].outcome # "ok" THEN <<i>>
    ELSE <<i>> \o Chain(pages, pages[i].next)

\* The tag names of the given pages, one page after the other.
RECURSIVE NamesOf(_, _)
NamesOf(pages, chain) ==
    IF chain = <<>> THEN <<>>
    ELSE pages[Head(chain)].names \o NamesOf(pages, Tail(chain))

C25_WitnessFailure ==
    /\ Returned("getAllTags")
    /\ run.answer[1].names # <<>>
    /\ run.result.requested = <<1, 2>>
    /\ run.answer[2].outcome = "decode"
    /\ run.result.err.chain = <<"get tags", "decode response">>
    /\ run.result.tags = <<>>

\* C26: the run logs in at most once; in a run that is not a dry run every
\* Push comes after that one login, which succeeded; a login that fails, for
\* empty credentials or because the registry refuses, is the run's error and
\* no Build and no Push is ever made; a dry run neither logs in nor pushes.
C26_LoginOnceBeforePush ==
    /\ Cardinality(PosOf(run, "Login")) <= 1
    /\ \A p \in PosOf(run, "Push") :
           /\ ~run.opts.DryRun
           /\ \E k \in PosOf(run, "Login") : k < p /\ IsNil(run.calls[k].err)
    /\ \A k \in PosOf(run, "Login") :
           /\ ~run.opts.DryRun
           /\ \A b \in PosOf(run, "Build") \cup PosOf(run, "Push") : k < b
           /\ ~IsNil(run.calls[k].err) =>
                  /\ PosOf(run, "Build") \cup PosOf(run, "Push") = {}
                  /\ run.err = Wrap("login to docker", run.calls[k].err)
                  /\ run.pc \in {"deferred", "exited"}
                  /\ run.pc = "exited" => run.exit = 1

\* C26 witness: two versions were pushed after the one login of the run.
C26_Witness ==
    /\ Cardinality(PosOf(run, "Login")) = 1
    /\ Pos(run, "Push", 1) # {} /\ Pos(run, "Push", 2) # {}
    /\ run.pc = "exited"

\* C26 witness of the failing case: the credentials were empty and the run
\* has ended with status 1 without a Build.
C26_WitnessEmptyCredentials ==
    /\ run.pc = "exited" /\ run.exit = 1
    /\ run.err.chain = <<"login to docker", "docker login failed">>
    /\ PosOf(run, "Build") = {}
    /\ Len(run.upstream) > 0

\* C27: in the variant with a list of versions, a remote version is
\* processed only if it equals one of the requested versions, and with no
\* version requested every remote version is processed.
C27_OnlyRequestedVersions ==
    run.pc = "returned" /\ run.op = "list" =>
        /\ \A i \in 1..Len(run.processed) :
               \/ run.requested = <<>>
               \/ \E j \in 1..Len(run.requestedVersions) :
                      Compare(run.requestedVersions[j], run.processed[i]) = 0
        /\ run.requested = <<>> => run.processed = run.versions

\* The window of the run: the previous image and its base.
Window(s) == <<s.previousImage, s.previousBaseImage>>

\* Every Remove of the log comes, in its iteration, after a Build that gave
\* two identifiers and, unless the run is a dry run, after a Push that
\* succeeded.
RemoveAfterBuildAndPush ==
    \A k \in PosOf(run, "Remove") :
        /\ \E b \in Pos(run, "Build", run.calls[k].idx) :
               /\ b < k
               /\ IsNil(run.calls[b].err)
               /\ run.calls[b].out.imageID # EmptyID
               /\ run.calls[b].out.baseID # EmptyID
        /\ ~run.opts.DryRun =>
               \E p \in Pos(run, "Push", run.calls[k].idx) :
                   p < k /\ IsNil(run.calls[p].err)

\* A step that ends the removal of an iteration well gives the window the
\* identifiers of the image just built, after a Remove that succeeded or with
\* nothing to remove; every other step leaves the window as it was.
WindowAdvancesAfterRemove ==
    IF run.pc = "clean" /\ run'.pc = "loop"
    THEN /\ Window(run') = <<run.imageID, run.baseID>>
         /\ \/ ImagesToRemove(run) = <<>> /\ Pos(run', "Remove", run.idx) = {}
            \/ \E k \in Pos(run', "Remove", run.idx) :
                   /\ IsNil(run'.calls[k].err)
                   /\ run'.calls[k].args = ImagesToRemove(run)
                   /\ k = Len(run.calls) + 1
    ELSE Window(run') = Window(run)

\* C28: Remove is invoked only after the iteration's Build succeeded with
\* two identifiers and, in a run that is not a dry run, its Push succeeded;
\* the window takes the current identifiers only when Remove succeeded or
\* nothing was to be removed, and is unchanged by every step that fails.
C28_WindowAdvancesOnlyAfterRemove ==
    [](RemoveAfterBuildAndPush) /\ [][WindowAdvancesAfterRemove]_vars

\* C28 witness: the Remove of the second iteration failed, and the window
\* still holds the identifiers of the first image, not those of the second.
C28_Witness ==
    /\ run.pc = "deferred"
    /\ \E k \in Pos(run, "Remove", 2) : ~IsNil(run.calls[k].err)
    /\ \E b \in Pos(run, "Build", 1) :
           Window(run) = <<run.calls[b].out.imageID, run.calls[b].out.baseID>>
    /\ Window(run) # <<run.imageID, run.baseID>>

\* The positions of a Build's image history that are not <missing>.
KnownEntries == {i \in 1..Len(run.answer.history) : run.answer.history[i] # Missing}

\* C29: a Build that succeeds returns, without the sha256: prefix, the
\* identifier of the first image listed for its first tag and the last entry
\* of the history that is not <missing>; a Build fails and returns no
\* identifier when it is given no tag, when no image is listed, or when every
\* entry of the history is <missing>; a failed Build never returns an
\* identifier.
C29_BuildResolvesIDs ==
    Returned("Build") =>
        /\ IsNil(run.result.err) =>
               /\ run.args # <<>> /\ run.answer.images # <<>> /\ KnownEntries # {}
               /\ <<"sha256:">> \o run.result.imageID = run.answer.images[1]
               /\ LET last == CHOOSE i \in KnownEntries : \A j \in KnownEntries : j <= i
                  IN run.result.baseID \in {run.answer.history[last],
                                            Tail(run.answer.history[last])}
               /\ Head(run.result.baseID) # "sha256:"
        /\ (run.args = <<>> \/ run.answer.images = <<>> \/ KnownEntries = {}) =>
               ~IsNil(run.result.err)
        /\ ~IsNil(run.result.err) =>
               run.result.imageID = EmptyID /\ run.result.baseID = EmptyID

\* C29 witness: two images are listed and the history ends with <missing>
\* after two known entries; the Build returned the first image and the
\* second entry.
C29_Witness ==
    /\ Returned("Build")
    /\ run.answer.images = <<DaemonID("b"), DaemonID("a")>>
    /\ run.answer.history = <<<<"q">>, DaemonID("p"), Missing>>
    /\ IsNil(run.result.err)
    /\ run.result.imageID = <<"b">>
    /\ run.result.baseID = <<"p">>

\* C29 witness of the failing case: the image is listed, every entry of its
\* history is <missing>, and the Build failed without identifiers.
C29_WitnessAllMissing ==
    /\ Returned("Build")
    /\ run.args # <<>>
    /\ run.answer.fail = "none"
    /\ run.answer.lines = <<"log">>
    /\ run.answer.images = <<DaemonID("a")>>
    /\ run.answer.history = <<Missing, Missing>>
    /\ run.result.err.chain = <<"get image id", "could not find base image id">>
    /\ run.result.imageID = EmptyID

\* The output files that exist, by template.
Written(s) == {t \in DOMAIN s.files : s.files[t] # "none"}

\* When prepareBuildDirectory has returned: with the directory not created,
\* no task was started and no file exists; otherwise every task has finished,
\* the error is nil exactly when no task failed, and then every template has
\* its own rendered output file.
PrepareFansIn ==
    run.pc = "returned" =>
        IF run.result.chain = <<"create build directory">>
        THEN /\ \A t \in DOMAIN run.tasks : run.tasks[t] = "idle"
             /\ Written(run) = {}
        ELSE /\ \A t \in DOMAIN run.tasks : run.tasks[t] = "done"
             /\ IsNil(run.result) <=> run.failedTasks = {}
             /\ IsNil(run.result) =>
                    \A t \in DOMAIN run.tasks : run.files[t] = "rendered"
             /\ ~IsNil(run.result) =>
                    run.result.chain \in {<<"create template">>, <<"execute template">>}

\* No step removes or empties an output file: what a task has rendered stays.
FilesLeftInPlace ==
    \A t \in DOMAIN run.files :
        /\ run.files[t] # "none" => run'.files[t] # "none"
        /\ run.files[t] = "rendered" => run'.files[t] = "rendered"

\* C30: prepareBuildDirectory returns only after every template task has
\* finished; it returns an error exactly when the directory could not be
\* created or a task failed; without an error every template has its output
\* file; and the files written by the other tasks stay in place on failure.
C30_PrepareFansInBeforeReturn ==
    [](PrepareFansIn) /\ [][FilesLeftInPlace]_vars

\* C30 witness: two tasks were running at once earlier; one has failed, the
\* call has returned its error, and the file the other rendered is in place.
C30_Witness ==
    /\ run.pc = "returned"
    /\ ~IsNil(run.result)
    /\ Len(run.tasks) >= 2
    /\ run.files[1] = "rendered"
    /\ 2 \in run.failedTasks

\* C30 witness of the concurrency: two tasks have created their files and
\* neither has returned, while the loop has not reached eg.Wait.
C30_WitnessConcurrent ==
    /\ run.pc = "spawn"
    /\ Len(run.tasks) >= 2
    /\ run.tasks[1] = "created" /\ run.tasks[2] = "created"

\* The position of the tag with the given text in the raw tag list.
RawPosition(original) == CHOOSE i \in 1..Len(run.rawTags) : run.rawTags[i] = original

\* C31: after the sort, two selected versions that compare equal are in the
\* order their tags had in the raw tag list, whatever the length of the list.
C31_SortIsStable ==
    (run.pc = "sorted" /\ run.op = "sort") =>
        \A i \in 1..Len(run.versions) : \A j \in (i + 1)..Len(run.versions) :
            Compare(run.versions[i], run.versions[j]) = 0 =>
                RawPosition(run.versions[i].original) < RawPosition(run.versions[j].original)

\* Up to twelve selected versions the order of equal versions is kept.
C31_ShortListsKeepOrder ==
    (run.pc = "sorted" /\ run.op = "sort" /\ Len(run.selected) <= 12) =>
        \A i \in 1..Len(run.versions) : \A j \in (i + 1)..Len(run.versions) :
            Compare(run.versions[i], run.versions[j]) = 0 =>
                RawPosition(run.versions[i].original) < RawPosition(run.versions[j].original)

\* The places of the raw tags that pass the pattern and do not parse.
Unparsed(s) ==
    {i \in 1..Len(s.cache.Tags) :
        WellFormed(s.cache.Tags[i]) /\ NewVersion(TrimSpace(s.cache.Tags[i])).err}

\* C32: a malformed constraint ends the run at its first step, before a tag
\* is read from the cache or the registry; with a well-formed constraint no
\* error of the run comes from a tag, the selection always succeeds, a tag
\* that passes the pattern and does not parse is warned about and left out,
\* a version the constraint refuses is left out, and every other
\* well-formed tag is selected.
C32_SelectionIsTotal ==
    /\ (NewConstraint(run.opts.VersionConstraint).err /\ run.pc # "parseConstraint") =>
           /\ run.pc = "deferred"
           /\ run.err = NewError("parse version constraint", FALSE)
           /\ run.calls = <<>>
           /\ run.cache.Tags = <<>>
    /\ (~NewConstraint(run.opts.VersionConstraint).err /\ ~IsNil(run.err)) =>
           run.err.chain[1] \in {"create docker client", "load tag cache", "load remote tags"}
    /\ run.pc = "loop" =>
           /\ IsNil(run.err)
           /\ Cardinality(PosOf(run, "Warnf")) = Cardinality(Unparsed(run))
           /\ \A i \in 1..Len(run.cache.Tags) :
                  LET tag == TrimSpace(run.cache.Tags[i])
                  IN IF ~WellFormed(run.cache.Tags[i]) THEN SelectedAs(run, tag) = {}
                     ELSE IF i \in Unparsed(run)
                     THEN /\ SelectedAs(run, tag) = {}
                          /\ \E k \in PosOf(run, "Warnf") : run.calls[k].args = tag
                     ELSE IF ~Check(run.versionConstraint, NewVersion(tag))
                     THEN SelectedAs(run, tag) = {}
                     ELSE SelectedAs(run, tag) # {}

\* C32 witness: between the tags 11 and 1 the registry listed twenty nines,
\* which no 64-bit number holds; the selection warned once and selected the
\* two others.
C32_Witness ==
    /\ run.pc = "loop"
    /\ Len(run.cache.Tags) = 3
    /\ Len(run.cache.Tags[2]) = Len(MaxUint64)
    /\ Cardinality(PosOf(run, "Warnf")) = 1
    /\ Len(run.versions) = 2
    /\ IsNil(run.err)

\* C33: every Build is given, as its build context, the directory the
\* prepare step of the same iteration rendered the templates in: the
\* configured build root joined with the version's original text.
C33_BuildContextIsPreparedDirectory ==
    \A k \in PosOf(run, "Build") :
        /\ run.calls[k].args.dir =
               getTagBuildDir(run.opts.BuildDir, run.versions[run.calls[k].idx].original)
        /\ \E p \in Pos(run, "prepareBuildDirectory", run.calls[k].idx) :
               p < k /\ run.calls[p].args = run.calls[k].args.dir

\* The places where id was passed to Remove: the call and the argument.
PassedToRemove(s, id) ==
    {<<k, n>> \in PosOf(s, "Remove") \X {1, 2} :
        n <= Len(s.calls[k].args) /\ s.calls[k].args[n] = id}

\* The run has ended without error after processing at least one version.
Completed(s) == s.pc = "exited" /\ IsNil(s.err) /\ Len(s.versions) >= 1

\* The identifiers the builds of the run returned are all different.
DistinctIdentifiers(s) ==
    /\ \A i \in 1..Len(s.versions) : BuiltIDs(s, i)[1] # BuiltIDs(s, i)[2]
    /\ \A i, j \in 1..Len(s.versions) :
           i # j => Range(BuiltIDs(s, i)) \cap Range(BuiltIDs(s, j)) = {}

\* C34: when a run over one or more versions has ended without error, the
\* image ID and the base ID of the last version were never passed to Remove,
\* and each identifier of every earlier version was passed to Remove exactly
\* once.
C34_LastGenerationKept ==
    Completed(run) =>
        /\ \A id \in Range(BuiltIDs(run, Len(run.versions))) : PassedToRemove(run, id) = {}
        /\ \A i \in 1..(Len(run.versions) - 1) :
               \A id \in Range(BuiltIDs(run, i)) : Cardinality(PassedToRemove(run, id)) = 1

\* The same, of the runs whose builds returned identifiers that all differ.
C34_KeptWhenIdentifiersDiffer ==
    (Completed(run) /\ DistinctIdentifiers(run)) =>
        /\ \A id \in Range(BuiltIDs(run, Len(run.versions))) : PassedToRemove(run, id) = {}
        /\ \A i \in 1..(Len(run.versions) - 1) :
               \A id \in Range(BuiltIDs(run, i)) : Cardinality(PassedToRemove(run, id)) = 1

\* Such a run is reached: two versions, four identifiers.
C34_TwoDistinctGenerations ==
    Completed(run) /\ DistinctIdentifiers(run) /\ Len(run.versions) = 2

\* The identifiers given to the successful Remove calls before place k.
RemovedBefore(s, k) ==
    UNION {Range(s.calls[j].args) :
              j \in {r \in PosOf(s, "Remove") : r < k /\ IsNil(s.calls[r].err)}}

\* C35: no Remove call is given an identifier twice, none is given an
\* identifier that an earlier successful Remove was given, and the window
\* holds two different identifiers, neither of them removed before.
C35_NoIdentifierRemovedTwice ==
    /\ \A k \in PosOf(run, "Remove") :
           /\ Cardinality(Range(run.calls[k].args)) = Len(run.calls[k].args)
           /\ Range(run.calls[k].args) \cap RemovedBefore(run, k) = {}
    /\ run.previousImage # EmptyID =>
           /\ run.previousImage # run.previousBaseImage
           /\ {run.previousImage, run.previousBaseImage}
                  \cap RemovedBefore(run, Len(run.calls) + 1) = {}

\* The build directories the run has created: those of the prepare calls
\* that got past the creation of the directory, whether or not the templates
\* were rendered then.
CreatedDirs(s) ==
    {s.calls[k].args : k \in {p \in PosOf(s, "prepareBuildDirectory") :
                                 s.calls[p].err.chain # <<"create build directory">>}}

\* The build directories the run has removed.
RemovedDirs(s) ==
    UNION {Range(s.calls[k].args) :
              k \in {c \in PosOf(s, "cleanupBuildDirs") : ~s.calls[c].out.failed}}

\* C36: with keep-build-dirs off, once the run has exited and the removal of
\* directories itself did not fail, no directory the run created is left,
\* that of a version whose templates failed to render included.
C36_NoBuildDirectoryLeft ==
    (run.pc = "exited" /\ ~run.opts.KeepBuildDirs /\ ~CleanupFailed(run)) =>
        CreatedDirs(run) \ RemovedDirs(run) = {}

\* The same, of the runs in which no prepare step failed after creating its
\* directory.
C36_NoneLeftWhenRenderingSucceeds ==
    (run.pc = "exited" /\ ~run.opts.KeepBuildDirs /\ ~CleanupFailed(run)
        /\ ~RenderFailed(run)) =>
        CreatedDirs(run) \ RemovedDirs(run) = {}

\* What the next run's loadTagCache makes of the file the k-th call, a
\* saveTagCache that succeeded, has written.
LoadedNext(s, k) == loadTagCache(File("json", EncodeCache(s.calls[k].args), Now))

\* C37: every cache file a run has written at shutdown holds an image name
\* and at least one tag, and the next run's loadTagCache takes it as a hit
\* with the same image and tags, whatever the registry listed.
C37_WrittenCacheIsValid ==
    \A k \in PosOf(run, "saveTagCache") :
        IsNil(run.calls[k].err) =>
            /\ run.calls[k].args.Image # ""
            /\ run.calls[k].args.Tags # <<>>
            /\ IsNil(LoadedNext(run, k).err)
            /\ LoadedNext(run, k).cache.Tags = run.calls[k].args.Tags

\* The same, of the runs that obtained at least one tag.
C37_ValidWhenTagsObtained ==
    \A k \in PosOf(run, "saveTagCache") :
        (IsNil(run.calls[k].err) /\ run.cache.Tags # <<>>) =>
            /\ run.calls[k].args.Image # ""
            /\ IsNil(LoadedNext(run, k).err)
            /\ LoadedNext(run, k).cache.Tags = run.calls[k].args.Tags

\* The iterations of the run whose Build succeeded.
Built(s) == {s.calls[k].idx : k \in {b \in PosOf(s, "Build") : IsNil(s.calls[b].err)}}

\* The iterations whose Tag call was given the latest tag.
TaggedLatest(s) ==
    {s.calls[k].idx : k \in {t \in PosOf(s, "Tag") :
                                 \E j \in 1..Len(s.calls[t].args.targets) :
                                     s.calls[t].args.targets[j] = LatestTag}}

\* The iterations whose Push call was given the latest tag.
PushedLatest(s) ==
    {s.calls[k].idx : k \in {t \in PosOf(s, "Push") :
                                 \E j \in 1..Len(s.calls[t].args) : s.calls[t].args[j] = LatestTag}}

\* C38: in the variant with a list of versions, whenever at least one
\* version is built the final built version of the ascending list is tagged
\* as latest, and pushed as latest with its push, whatever versions were
\* requested.
C38_LastBuiltGetsLatest ==
    run.op = "list" /\ run.pc = "returned" /\ Built(run) # {} =>
        LET last == CHOOSE i \in Built(run) : \A j \in Built(run) : j <= i
        IN /\ last \in TaggedLatest(run)
           /\ \A k \in Pos(run, "Push", last) : last \in PushedLatest(run)

\* The same of the runs in which every step of every version succeeds.
C38_LastBuiltGetsLatestWithoutFailures ==
    PosOf(run, "Errorf") = {} => C38_LastBuiltGetsLatest

\* What the loop does: the latest tag goes to the last remote version of the
\* list and to no other, so it is given only when that version is requested.
C38_LatestOnlyForLastRemoteVersion ==
    run.op = "list" =>
        /\ TaggedLatest(run) \subseteq {Len(run.versions)}
        /\ \A k \in PosOf(run, "Tag") :
               run.calls[k].idx = Len(run.versions) => run.calls[k].idx \in TaggedLatest(run)

\* A run that built a version and gave no image the latest tag, every step
\* having succeeded.
C38_BuiltWithoutLatest ==
    /\ run.op = "list" /\ run.pc = "returned"
    /\ Built(run) # {} /\ PosOf(run, "Errorf") = {}
    /\ TaggedLatest(run) = {}

\* The calls of buildImage that returned an error.
FailedCalls(s) ==
    {k \in 1..Len(s.calls) : s.calls[k].op \in {"Build", "Tag", "Push", "Remove"} /\ ~IsNil(s.calls[k].err)}

\* A failure of buildImage is logged in its iteration and does not end the run
\* with an error.
FailuresLogged(s) ==
    /\ \A k \in FailedCalls(s) :
           \E e \in Pos(s, "Errorf", s.calls[k].idx) : e > k
    /\ s.pc = "failed" =>
           \/ s.err.canceled
           \/ Head(s.err.chain) = "create version directory"
    /\ s.pc = "returned" => IsNil(s.err)

\* An image is on the daemon between two versions only if its Remove failed.
ImagesRemoved(s) ==
    \A id \in s.images : \E k \in Pos(s, "Remove", id) : ~IsNil(s.calls[k].err)

\* C39: in the variant with a list of versions, a build, tag, push or remove
\* failure of one version is logged, the loop goes on and the run returns
\* success; and every image built is removed from the daemon before the next
\* version's build starts, also when its tag or push failed.
C39_FailuresLoggedAndImagesRemoved ==
    run.op = "list" => FailuresLogged(run) /\ ImagesRemoved(run)

\* The first half alone.
C39_FailuresLoggedRunContinues ==
    run.op = "list" => FailuresLogged(run)

\* A run that went on after a failed push and returned success.
C39_ContinuedAfterFailure ==
    /\ run.op = "list" /\ run.pc = "returned"
    /\ \E k \in FailedCalls(run) : run.calls[k].op = "Push" /\ run.calls[k].idx < Len(run.versions)
    /\ \E b \in PosOf(run, "Build") : run.calls[b].idx = Len(run.versions)

====
